---- MODULE Spec2Model ----
(***************************************************************************)
(* frunk: a parallel script runner.  Model of the pattern resolver, the    *)
(* dependency graph builder (GraphBuilder.buildGraph), the execution       *)
(* engine (Executor.execute / runTask / shutdown) and Runner.run.          *)
(*                                                                         *)
(* Strings of the program are modelled as follows.  A manifest command is  *)
(* a sequence of tokens (the words of the command line, split on white     *)
(* space); a bracketed pattern group is one token that carries its comma   *)
(* separated patterns.  A resolved target such as "a", "SEQ:a" or "SEQ1:a" *)
(* is the record [seq, idx, name]: seq says whether the SEQ marker is      *)
(* present, idx is the number after SEQ (-1 when there is none).           *)
(***************************************************************************)
EXTENDS Integers, Sequences, FiniteSets, TLC

\* ------------------------------------------------------------------ bounds
MaxDeps == 2
MaxTargets == 2
MaxSeqIdx == 2
MaxNodes == 3
MaxTasks == 2
MaxRunTargets == 2
MaxLooseNodes == 2

\* ------------------------------------------------------- generic helpers
Range(s) == {s[i] : i \in 1..Len(s)}

InSeq(x, s) == \E i \in 1..Len(s) : s[i] = x

Reverse(s) == [i \in 1..Len(s) |-> s[Len(s) + 1 - i]]

RECURSIVE Dedup(_)
\* [...new Set(result)]: first occurrences, in order
Dedup(s) ==
  IF s = <<>> THEN <<>>
  ELSE LET init == Dedup(SubSeq(s, 1, Len(s) - 1))
           last == s[Len(s)]
       IN IF InSeq(last, init) THEN init ELSE Append(init, last)

RECURSIVE SortSet(_)
\* ascending sequence of a finite set of integers
SortSet(S) ==
  IF S = {} THEN <<>>
  ELSE LET m == CHOOSE x \in S : \A y \in S : x <= y
       IN <<m>> \o SortSet(S \ {m})

\* ---------------------------------------------------------------- tokens
Word(w) == [w |-> w, g |-> <<>>]
Group(ps) == [w |-> "[", g |-> ps]
IsGroup(t) == t.w = "["

\* command-line arguments of Runner.run
Arg(w) == [w |-> w, chain |-> <<>>]
\* a bracket argument: the groups between the "->" arrows, each group the
\* sequence of its comma separated patterns
Bracket(chain) == [w |-> "[", chain |-> chain]

\* patterns: "a" / "!a" / "SEQ:a" / "SEQ:[a,b]"
Lit(n) == [kind |-> "lit", n |-> n, ps |-> <<>>]
Excl(n) == [kind |-> "excl", n |-> n, ps |-> <<>>]
SeqOne(n) == [kind |-> "seq", n |-> n, ps |-> <<>>]
SeqGrp(ps) == [kind |-> "seqgrp", n |-> "", ps |-> ps]

\* resolved names: "a" / "SEQ:a" / "SEQ<i>:a"
Plain(n) == [seq |-> FALSE, idx |-> -1, name |-> n]
SeqTag(n) == [seq |-> TRUE, idx |-> -1, name |-> n]
SeqIdx(i, n) == [seq |-> TRUE, idx |-> i, name |-> n]

NoCommand == <<>>
NoCommandPlaceholder == <<Word("echo"), Word("No command")>>
COMMAND_NODE_NAME == "__frunk_command__"

\* ------------------------------------------------------ PatternMatcher
scriptNamesOf(scripts) == [i \in 1..Len(scripts) |-> scripts[i].name]

\* micromatch(list, pattern) for the patterns of the model: "*" matches every
\* name (no name of the model contains a slash), any other pattern is a
\* literal and matches the entries equal to it
micromatch(names, p) ==
  IF p = "*" THEN names ELSE SelectSeq(names, LAMBDA x : x = p)

\* isGlobPattern: of the patterns of the model only "*" contains one of
\* the characters *, ?, [ and :
isGlobPattern(p) == p = "*"

findMatches(p, names) ==
  IF isGlobPattern(p) THEN [ok |-> TRUE, result |-> micromatch(names, p)]
  ELSE IF InSeq(p, names) THEN [ok |-> TRUE, result |-> <<p>>]
  ELSE LET matches == micromatch(names, p)
       IN IF Len(matches) > 0 THEN [ok |-> TRUE, result |-> matches]
          ELSE [ok |-> FALSE, result |-> <<>>]

processExclusionNone(excludePattern, result) == result

\* processExclusion: "*" removes what micromatch(result, "*") matches,
\* which is every entry (none holds a slash); a name is compared as a
\* string, so a SEQ-marked entry is not removed by the exclusion of its
\* script name
processExclusion(excludePattern, result) ==
  IF excludePattern = "*"
  THEN SelectSeq(result, LAMBDA r : FALSE)
  ELSE SelectSeq(result, LAMBDA r : r # Plain(excludePattern))

RECURSIVE resolveFrom(_, _, _)
\* the loop of resolvePatterns over the patterns, result accumulated so far
resolveFrom(patterns, names, result) ==
  IF patterns = <<>> THEN [ok |-> TRUE, result |-> result]
  ELSE
    LET p == Head(patterns) IN
    IF p.kind = "seqgrp" THEN
      LET nested == resolveFrom(p.ps, names, <<>>) IN
      IF ~nested.ok THEN [ok |-> FALSE, result |-> <<>>]
      ELSE LET r == Dedup(nested.result)
           IN resolveFrom(Tail(patterns), names,
                result \o [i \in 1..Len(r) |-> SeqTag(r[i].name)])
    ELSE IF p.kind = "seq" THEN
      LET m == micromatch(names, p.n)
      IN resolveFrom(Tail(patterns), names,
           result \o [i \in 1..Len(m) |-> SeqTag(m[i])])
    ELSE IF p.kind = "excl" THEN
      resolveFrom(Tail(patterns), names, processExclusion(p.n, result))
    ELSE
      LET f == findMatches(p.n, names) IN
      IF ~f.ok THEN [ok |-> FALSE, result |-> <<>>]
      ELSE resolveFrom(Tail(patterns), names,
             result \o [i \in 1..Len(f.result) |-> Plain(f.result[i])])

resolvePatterns(patterns, scripts) ==
  LET r == resolveFrom(patterns, scriptNamesOf(scripts), <<>>)
  IN [ok |-> r.ok, result |-> Dedup(r.result)]

\* validatePatterns: a literal pattern that matches nothing throws
validatePatterns(patterns, scripts) ==
  \A i \in 1..Len(patterns) :
     patterns[i].kind = "lit" => InSeq(patterns[i].n, scriptNamesOf(scripts))

\* ------------------------------------------------------------ graphlib
EmptyGraph == [nodes |-> <<>>, labelled |-> {}, label |-> <<>>, edges |-> <<>>]

hasNode(g, v) == InSeq(v, g.nodes)

\* setNode(v, value)
setNode(g, v, task) ==
  [g EXCEPT !.nodes = IF hasNode(g, v) THEN @ ELSE Append(@, v),
            !.labelled = @ \cup {v},
            !.label = (v :> task) @@ @]

\* setNode(v) as setEdge calls it: creates the node without a label
ensureNode(g, v) ==
  IF hasNode(g, v) THEN g ELSE [g EXCEPT !.nodes = Append(@, v)]

setEdge(g, v, w) ==
  IF InSeq(<<v, w>>, g.edges) THEN g
  ELSE [ensureNode(ensureNode(g, v), w) EXCEPT !.edges = Append(@, <<v, w>>)]

successors(g, v) ==
  LET es == SelectSeq(g.edges, LAMBDA e : e[1] = v)
  IN [i \in 1..Len(es) |-> es[i][2]]

predecessors(g, w) ==
  LET es == SelectSeq(g.edges, LAMBDA e : e[2] = w)
  IN [i \in 1..Len(es) |-> es[i][1]]

sinks(g) == SelectSeq(g.nodes, LAMBDA v : ~\E i \in 1..Len(g.edges) : g.edges[i][1] = v)

RECURSIVE visit(_, _, _, _), visitAll(_, _, _, _)
\* alg.topsort's visit: st = [visited, results, cyc]
visit(g, node, stack, st) ==
  IF st.cyc THEN st
  ELSE IF node \in stack THEN [st EXCEPT !.cyc = TRUE]
  ELSE IF node \in st.visited THEN st
  ELSE LET st1 == visitAll(g, predecessors(g, node), stack \cup {node},
                           [st EXCEPT !.visited = @ \cup {node}])
       IN IF st1.cyc THEN st1 ELSE [st1 EXCEPT !.results = Append(@, node)]

visitAll(g, todo, stack, st) ==
  IF todo = <<>> THEN st
  ELSE visitAll(g, Tail(todo), stack, visit(g, Head(todo), stack, st))

\* alg.topsort: ok = FALSE stands for the CycleException
topsort(g) ==
  LET st == visitAll(g, sinks(g), {}, [visited |-> {}, results |-> <<>>, cyc |-> FALSE])
  IN [ok |-> ~st.cyc /\ Cardinality(st.visited) = Len(g.nodes), order |-> st.results]

isAcyclicUnchecked(g) == TRUE

isAcyclic(g) == topsort(g).ok

\* ------------------------------------------------------- GraphBuilder
hasScript(scripts, n) == InSeq(n, scriptNamesOf(scripts))

\* scriptMap.get(name): of two entries with one name the Map keeps the later
getScript(scripts, n) ==
  scripts[CHOOSE i \in 1..Len(scripts) :
            /\ scripts[i].name = n
            /\ \A j \in 1..Len(scripts) : scripts[j].name = n => j <= i]

IsCliPath(w) == w \in {"frunk/dist/cli.js", "node_modules/frunk/dist/cli.js"}

\* startsWith("f ") || startsWith("frunk ") || includes("frunk/dist/cli.js")
\* || NODE_CLI_PATTERN
isFrunkCommand(cmd) ==
  \/ Len(cmd) >= 2 /\ cmd[1].w \in {"f", "frunk"}
  \/ \E i \in 1..Len(cmd) : IsCliPath(cmd[i].w)
  \/ Len(cmd) >= 3 /\ cmd[1].w = "node" /\ IsCliPath(cmd[2].w) /\ IsGroup(cmd[3])

\* the part of STANDARD_FRUNK_PATTERN / PATH_BASED_PATTERN after the head:
\* a non-empty bracket group at position k, then anything, then optionally
\* a "--" that is followed by the final command
parseAfterHead(cmd, k) ==
  IF Len(cmd) >= k /\ IsGroup(cmd[k]) /\ Len(cmd[k].g) > 0
  THEN LET seps == {i \in (k + 1)..(Len(cmd) - 1) : cmd[i].w = "--"}
           first == CHOOSE i \in seps : \A j \in seps : i <= j
       IN [ok |-> TRUE,
           dependencies |-> cmd[k].g,
           finalCommand |-> IF seps = {} THEN <<>> ELSE SubSeq(cmd, first + 1, Len(cmd))]
  ELSE [ok |-> FALSE, dependencies |-> <<>>, finalCommand |-> <<>>]

parseFrunkCommandNoSimple(cmd) ==
  IF Len(cmd) >= 2 /\ cmd[1].w \in {"f", "frunk"} /\ parseAfterHead(cmd, 2).ok
  THEN parseAfterHead(cmd, 2)
  ELSE [ok |-> FALSE, dependencies |-> <<>>, finalCommand |-> <<>>]

\* parseFrunkCommand: ok = FALSE stands for null, finalCommand = <<>> for
\* an absent final command
parseFrunkCommand(cmd) ==
  IF Len(cmd) >= 3 /\ cmd[1].w \in {"f", "frunk"} /\ cmd[2].w = "--"
  THEN [ok |-> TRUE, dependencies |-> <<>>, finalCommand |-> SubSeq(cmd, 3, Len(cmd))]
  ELSE IF Len(cmd) >= 2 /\ cmd[1].w \in {"f", "frunk"} /\ parseAfterHead(cmd, 2).ok
  THEN parseAfterHead(cmd, 2)
  ELSE IF \E i \in 1..Len(cmd) : IsCliPath(cmd[i].w) /\ parseAfterHead(cmd, i + 1).ok
  THEN LET i == CHOOSE i \in 1..Len(cmd) : IsCliPath(cmd[i].w) /\ parseAfterHead(cmd, i + 1).ok
       IN parseAfterHead(cmd, i + 1)
  ELSE [ok |-> FALSE, dependencies |-> <<>>, finalCommand |-> <<>>]

mkTask(name, command) == [name |-> name, command |-> command]

literalDepsNone(deps, scripts) == <<>>

literalDepsExcluding(deps, scripts) ==
  LET lits == SelectSeq(deps, LAMBDA p :
                /\ p.kind = "lit" /\ hasScript(scripts, p.n)
                /\ ~\E k \in 1..Len(deps) : deps[k].kind = "excl" /\ deps[k].n = p.n)
  IN [i \in 1..Len(lits) |-> lits[i].n]

\* the catch branch of the dependency resolution: the patterns of the group
\* that are themselves names of manifest entries
literalDeps(deps, scripts) ==
  LET lits == SelectSeq(deps, LAMBDA p : p.kind = "lit" /\ hasScript(scripts, p.n))
  IN [i \in 1..Len(lits) |-> lits[i].n]

resolvedDepsOf(deps, scripts) ==
  LET r == resolvePatterns(deps, scripts)
  IN IF r.ok THEN [i \in 1..Len(r.result) |-> r.result[i].name]
     ELSE literalDeps(deps, scripts)

RECURSIVE processScript(_, _, _, _), processDeps(_, _, _, _, _)
\* processScript(scriptName, visited) on the graph g; yields the graph and
\* the visited set, which is shared by the whole traversal of one target
processScript(scripts, scriptName, g, visited) ==
  IF scriptName \in visited THEN [g |-> g, visited |-> visited]
  ELSE
    LET v1 == visited \cup {scriptName} IN
    IF ~hasScript(scripts, scriptName) THEN [g |-> g, visited |-> v1]
    ELSE
      LET script == getScript(scripts, scriptName)
          frunkCmd == parseFrunkCommand(script.command)
      IN IF isFrunkCommand(script.command) /\ frunkCmd.ok
         THEN LET final == IF frunkCmd.finalCommand = <<>>
                           THEN NoCommandPlaceholder ELSE frunkCmd.finalCommand
                  g1 == setNode(g, scriptName, mkTask(scriptName, final))
              IN processDeps(scripts, scriptName,
                             resolvedDepsOf(frunkCmd.dependencies, scripts), g1, v1)
         ELSE [g |-> setNode(g, scriptName, mkTask(scriptName, script.command)),
               visited |-> v1]

RECURSIVE processDepsSkipVisited(_, _, _, _, _)
processDepsSkipVisited(scripts, scriptName, deps, g, visited) ==
  IF deps = <<>> THEN [g |-> g, visited |-> visited]
  ELSE LET r == processScript(scripts, Head(deps),
                              IF Head(deps) \in visited THEN g
                              ELSE setEdge(g, scriptName, Head(deps)), visited)
       IN processDepsSkipVisited(scripts, scriptName, Tail(deps), r.g, r.visited)

\* for (const dep of resolvedDeps) { setEdge; processScript(dep, visited) }
processDeps(scripts, scriptName, deps, g, visited) ==
  IF deps = <<>> THEN [g |-> g, visited |-> visited]
  ELSE LET r == processScript(scripts, Head(deps),
                              setEdge(g, scriptName, Head(deps)), visited)
       IN processDeps(scripts, scriptName, Tail(deps), r.g, r.visited)

RECURSIVE processAll(_, _, _)
\* for (const scriptName of resolvedScriptNames) processScript(scriptName)
processAll(scripts, names, g) ==
  IF names = <<>> THEN g
  ELSE processAll(scripts, Tail(names), processScript(scripts, Head(names), g, {}).g)

parseSequentialGroupsIndexedOnly(patterns) ==
  IF patterns = <<>> THEN <<>>
  ELSE IF ~\E i \in 1..Len(patterns) : patterns[i].idx >= 0 THEN <<patterns>>
  ELSE
    LET sortedIndices == SortSet({patterns[i].idx : i \in 1..Len(patterns)} \ {-1})
        groupOf(index) ==
          LET ms == SelectSeq(patterns, LAMBDA p : p.idx = index)
          IN [i \in 1..Len(ms) |-> Plain(ms[i].name)]
    IN [i \in 1..Len(sortedIndices) |-> groupOf(sortedIndices[i])]

\* parseSequentialGroups: the groups hold script names; an entry without a
\* numeric index is kept as it was given (marker included)
parseSequentialGroups(patterns) ==
  IF patterns = <<>> THEN <<>>
  ELSE IF ~\E i \in 1..Len(patterns) : patterns[i].idx >= 0 THEN <<patterns>>
  ELSE
    LET sortedIndices == SortSet({patterns[i].idx : i \in 1..Len(patterns)} \ {-1})
        groupOf(index) ==
          LET ms == SelectSeq(patterns, LAMBDA p : p.idx = index)
          IN [i \in 1..Len(ms) |-> Plain(ms[i].name)]
        nonSeqPatterns == SelectSeq(patterns, LAMBDA p : p.idx < 0)
        groups == [i \in 1..Len(sortedIndices) |-> groupOf(sortedIndices[i])]
    IN IF Len(nonSeqPatterns) > 0 THEN Append(groups, nonSeqPatterns) ELSE groups

\* graph.hasNode(<string of a group entry>)
hasNodeFor(g, entry) == ~entry.seq /\ hasNode(g, entry.name)

RECURSIVE addPairEdges(_, _, _)
addPairEdges(g, pairs, k) ==
  IF k > Len(pairs) THEN g
  ELSE addPairEdges(
         IF hasNodeFor(g, pairs[k][1]) /\ hasNodeFor(g, pairs[k][2])
         THEN setEdge(g, pairs[k][1].name, pairs[k][2].name) ELSE g,
         pairs, k + 1)

\* <<current, prev>> for every current of group i and prev of group i-1,
\* in the order of the two nested loops
groupPairs(prevGroup, currentGroup) ==
  [k \in 1..(Len(currentGroup) * Len(prevGroup)) |->
     << currentGroup[((k - 1) \div Len(prevGroup)) + 1],
        prevGroup[((k - 1) % Len(prevGroup)) + 1] >>]

RECURSIVE addSequentialEdgesToFirst(_, _, _)
addSequentialEdgesToFirst(g, groups, i) ==
  IF i > Len(groups) THEN g
  ELSE addSequentialEdgesToFirst(addPairEdges(g, groupPairs(groups[1], groups[i]), 1),
                                 groups, i + 1)

addSequentialEdgesNone(g, groups, i) == g

RECURSIVE addSequentialEdges(_, _, _)
\* the loop "for (let i = 1; i < sequentialGroups.length; i++)", from the
\* group at position i (counted from 1) on
addSequentialEdges(g, groups, i) ==
  IF i > Len(groups) THEN g
  ELSE addSequentialEdges(addPairEdges(g, groupPairs(groups[i - 1], groups[i]), 1),
                          groups, i + 1)

RECURSIVE addCommandEdgesToLeaves(_, _)
addCommandEdgesToLeaves(g, names) ==
  IF names = <<>> THEN g
  ELSE addCommandEdgesToLeaves(
         IF hasNode(g, Head(names)) /\ successors(g, Head(names)) = <<>>
         THEN setEdge(g, COMMAND_NODE_NAME, Head(names)) ELSE g,
         Tail(names))

RECURSIVE addCommandEdges(_, _)
\* for (const depName of resolvedScriptNames) if hasNode: setEdge(command, depName)
addCommandEdges(g, names) ==
  IF names = <<>> THEN g
  ELSE addCommandEdges(
         IF hasNode(g, Head(names)) THEN setEdge(g, COMMAND_NODE_NAME, Head(names)) ELSE g,
         Tail(names))

\* the graph before the cycle check
discoveredGraph(patterns, scripts, command) ==
  LET resolvedScriptNames == [i \in 1..Len(patterns) |-> patterns[i].name]
      g1 == processAll(scripts, resolvedScriptNames, EmptyGraph)
      g2 == addSequentialEdges(g1, parseSequentialGroups(patterns), 2)
  IN IF command # NoCommand /\ Len(resolvedScriptNames) > 0
     THEN addCommandEdges(setNode(g2, COMMAND_NODE_NAME, mkTask("command", command)),
                          resolvedScriptNames)
     ELSE g2

mkNodeZero(id, tasks, deps) ==
  [id |-> 0, tasks |-> tasks, dependencies |-> deps, sequential |-> FALSE]

mkNode(id, tasks, deps) ==
  [id |-> id, tasks |-> tasks, dependencies |-> deps, sequential |-> FALSE]

RECURSIVE createNodesUnshift(_, _, _, _, _)
createNodesUnshift(g, order, nodes, nodeIdMap, counter) ==
  IF order = <<>> THEN [nodes |-> nodes, counter |-> counter]
  ELSE
    LET taskName == Head(order) IN
    IF taskName \notin g.labelled \/ taskName \in DOMAIN nodeIdMap
    THEN createNodesUnshift(g, Tail(order), nodes, nodeIdMap, counter)
    ELSE
      LET succ == SelectSeq(successors(g, taskName), LAMBDA d : d \in DOMAIN nodeIdMap)
          depNodeIds == [i \in 1..Len(succ) |-> nodeIdMap[succ[i]]]
          node == [id |-> counter, tasks |-> <<g.label[taskName]>>,
                   dependencies |-> depNodeIds, sequential |-> FALSE]
      IN createNodesUnshift(g, Tail(order), <<node>> \o nodes,
                            (taskName :> counter) @@ nodeIdMap, counter + 1)

RECURSIVE createNodes(_, _, _, _, _)
\* the loop over executionOrder.reverse(); nodeIdMap maps task names to ids
createNodes(g, order, nodes, nodeIdMap, counter) ==
  IF order = <<>> THEN [nodes |-> nodes, counter |-> counter]
  ELSE
    LET taskName == Head(order) IN
    IF taskName \notin g.labelled \/ taskName \in DOMAIN nodeIdMap
    THEN createNodes(g, Tail(order), nodes, nodeIdMap, counter)
    ELSE
      LET succ == SelectSeq(successors(g, taskName), LAMBDA d : d \in DOMAIN nodeIdMap)
          depNodeIds == [i \in 1..Len(succ) |-> nodeIdMap[succ[i]]]
          node == mkNode(counter, <<g.label[taskName]>>, depNodeIds)
      IN createNodes(g, Tail(order), Append(nodes, node),
                     (taskName :> counter) @@ nodeIdMap, counter + 1)

\* buildGraph(patterns, availableScripts, _config, command) of a builder
\* whose nodeCounter is counter; ok = FALSE is the circular-dependency throw
\* (the graph g, the order and the created nodes r are bound as values)
buildGraph(patterns, scripts, command, counter) ==
  CHOOSE built \in
    { IF ~isAcyclic(g) THEN [ok |-> FALSE, nodes |-> <<>>, counter |-> counter]
      ELSE CHOOSE done \in
        { IF Len(patterns) = 0 /\ command # NoCommand
          THEN [ok |-> TRUE,
                nodes |-> Append(r.nodes,
                                 mkNode(r.counter, <<mkTask("command", command)>>, <<>>)),
                counter |-> r.counter + 1]
          ELSE IF Len(patterns) = 0 /\ Len(r.nodes) = 0
          THEN [ok |-> TRUE, nodes |-> Append(r.nodes, mkNode(r.counter, <<>>, <<>>)),
                counter |-> r.counter + 1]
          ELSE [ok |-> TRUE, nodes |-> r.nodes, counter |-> r.counter]
          : r \in {createNodes(g, executionOrder, <<>>, <<>>, counter) :
                     executionOrder \in {Reverse(topsort(g).order)}} } : TRUE
      : g \in {discoveredGraph(patterns, scripts, command)} } : TRUE

\* validateGraph: the graph of node ids; a dependency id that names no node
\* becomes a node of that graph through setEdge
validateGraph(nodes) ==
  LET withNodes[k \in 0..Len(nodes)] ==
        IF k = 0 THEN [nodes |-> <<>>, labelled |-> {}, label |-> <<>>, edges |-> <<>>]
        ELSE ensureNode(withNodes[k - 1], nodes[k].id)
      edgeList == [k \in 1..Len(nodes) |->
                     [j \in 1..Len(nodes[k].dependencies) |-> <<nodes[k].id, nodes[k].dependencies[j]>>]]
      withEdgesOf[k \in 0..Len(nodes)] ==
        IF k = 0 THEN withNodes[Len(nodes)]
        ELSE LET es == edgeList[k]
                 add[j \in 0..Len(es)] ==
                   IF j = 0 THEN withEdgesOf[k - 1] ELSE setEdge(add[j - 1], es[j][1], es[j][2])
             IN add[Len(es)]
  IN isAcyclic(withEdgesOf[Len(nodes)])

\* --------------------------------------------------------------- state
VARIABLES
  entry,        \* which operation the behaviour exercises: "build" (a call of
                \* buildGraph), "run" (Runner.run), "exec" (a call of execute)
  scripts,      \* availableScripts
  args,         \* the command line given to Runner.run
  patterns,     \* the resolved target list given to buildGraph
  command,      \* the trailing command given to buildGraph
  cont,         \* options.continue
  pc,           \* position of the operation
  nodeCounter,  \* GraphBuilder.nodeCounter
  earlier,      \* the sets of node ids returned by the earlier buildGraph
                \* calls of the builder, in call order
  nodes,        \* ExecutionNode[] returned by buildGraph / given to execute
  err,          \* the error raised, "none" when there is none
  errNodes,     \* the node ids listed in the message of the error
  exitCode,     \* argument of process.exit, -1 while it was not called
  running,      \* execute: running
  completed,    \* execute: completed
  failedNodes,  \* this.failed, node ids
  failedTasks,  \* this.failed, task names
  tcompleted,   \* this.completed
  processes,    \* this.processes: task name -> <<node index, task index>>
  aborted,      \* this.aborted
  timer,        \* the grace timer of shutdown: "none", "armed", "fired"
  timers,       \* number of grace timers scheduled by shutdown
  signals,      \* task name -> the signals sent by process.kill, in order
  nstate,       \* per node index: state of its runNode call
  tstate,       \* per node index and task index: state of its runTask call
  logger,       \* a Logger driven directly: config, colorMap, colorIndex,
                \* maxPrefixLength
  taskLoggers,  \* the task names of the TaskLoggers created from it
  console,      \* the lines written by it, in order, with their stream
  logCall       \* the last call made on it or on one of its TaskLoggers

inputVars == <<entry, scripts, args, patterns, command, cont>>
execVars == <<running, completed, failedNodes, failedTasks, tcompleted,
              processes, aborted, timer, timers, signals, nstate, tstate>>
logVars == <<logger, taskLoggers, console, logCall>>
vars == <<entry, scripts, args, patterns, command, cont, pc, nodeCounter, nodes,
          err, errNodes, exitCode, running, completed, failedNodes, failedTasks,
          tcompleted, processes, aborted, timer, timers, signals, nstate, tstate,
          logger, taskLoggers, console, logCall, earlier>>

\* ------------------------------------------------------------- inputs
Script(n, c) == [name |-> n, command |-> c]
Echo(x) == <<Word("echo"), Word(x)>>
FrunkWith(ps, x) == <<Word("f"), Group(ps), Word("--"), Word("echo"), Word(x)>>

Names == {"a", "b", "c", "d"}
NameOrder == <<"a", "b", "c", "d">>
Pos(n) == CHOOSE i \in 1..4 : NameOrder[i] = n

\* the members of a set of names, in manifest order
AsSeq(S) == SelectSeq(NameOrder, LAMBDA n : n \in S)

DepSets == {S \in SUBSET Names : 1 <= Cardinality(S) /\ Cardinality(S) <= MaxDeps}

\* the commands a script of the model may have: a plain command or an
\* orchestration invocation with up to MaxDeps literal dependencies
CommandsOf(n) ==
  {Echo(n)} \cup {FrunkWith([i \in 1..Len(AsSeq(S)) |-> Lit(AsSeq(S)[i])], n) : S \in DepSets}

\* manifests: a, b and c carry any command of the model, d is a plain
\* script or is missing from the manifest
Manifests ==
  {<<Script("a", ca), Script("b", cb), Script("c", cc)>> \o d :
     ca \in CommandsOf("a"), cb \in CommandsOf("b"), cc \in CommandsOf("c"),
     d \in {<<>>, <<Script("d", Echo("d"))>>}}

\* target lists up to renaming of a, b, c: the first occurrences of a, b, c
\* come in this order
Canonical(s) ==
  /\ \A i, j \in 1..Len(s) : i # j => s[i] # s[j]
  /\ \A i \in 1..Len(s) : s[i] \in {"b", "c"} =>
        \E j \in 1..(i - 1) : s[j] = NameOrder[Pos(s[i]) - 1]

TargetLists(n) == {s \in UNION {[1..k -> Names] : k \in 0..n} : Canonical(s)}

Commands == {NoCommand, Echo("hi")}

\* --------------------------------------------------------------- Logger
MaxLines == 2
MaxCalls == 3

colors == <<"cyan", "green", "yellow", "blue", "magenta", "red", "gray", "white">>

\* config.prefix: true (the default), false, or a string
PrefixDefault == [kind |-> "default", text |-> ""]
PrefixNone == [kind |-> "none", text |-> ""]
PrefixCustom(x) == [kind |-> "custom", text |-> x]

\* new Logger(config): quiet and prefix default to false and true
Logger(config) ==
  [config |-> config, colorMap |-> [nm \in {} |-> ""], colorIndex |-> 0, maxPrefixLength |-> 0]

LogTaskNames == {"t", "build"}
\* taskName.length for the task names of the model
NameLength(taskName) == IF taskName = "t" THEN 1 ELSE 5

\* the lines of a message: blank ones ("" and " ") and a text line
LineTexts == {"", " ", "x"}
\* message.split("\n") yields at least one line
Messages == UNION {[1..k -> LineTexts] : k \in 1..MaxLines}

\* !line.trim(): the line is empty or consists of white space
isBlank(line) == line \in {"", " "}

Max(a, b) == IF a >= b THEN a ELSE b

\* registerTask: a task name not yet in colorMap gets the next color
registerTask(lg, taskName) ==
  IF taskName \in DOMAIN lg.colorMap THEN lg
  ELSE [lg EXCEPT
          !.colorMap = [nm \in DOMAIN lg.colorMap \cup {taskName} |->
                          IF nm = taskName THEN colors[(lg.colorIndex % Len(colors)) + 1]
                          ELSE lg.colorMap[nm]],
          !.colorIndex = lg.colorIndex + 1,
          !.maxPrefixLength = Max(lg.maxPrefixLength, NameLength(taskName))]

\* formatLine: the line alone without prefix; else the colored prefix (the
\* custom string, or "[taskName]" padded to maxPrefixLength + 2 and followed
\* by the gray bar) and the line; red marks a line wrapped by ansis.red
formatLine(lg, taskName, line, red) ==
  LET color == IF taskName \in DOMAIN lg.colorMap THEN lg.colorMap[taskName] ELSE "white"
  IN IF lg.config.prefix.kind = "none"
     THEN [prefix |-> "", task |-> "", width |-> 0, color |-> "", bar |-> FALSE,
           line |-> line, red |-> red]
     ELSE IF lg.config.prefix.kind = "custom"
     THEN [prefix |-> lg.config.prefix.text, task |-> "", width |-> 0, color |-> color,
           bar |-> FALSE, line |-> line, red |-> red]
     ELSE [prefix |-> "[]", task |-> taskName,
           width |-> Max(NameLength(taskName) + 2, lg.maxPrefixLength + 2),
           color |-> color, bar |-> TRUE, line |-> line, red |-> red]

\* one console call: the stream and what was written
Written(stream, text) == [stream |-> stream, text |-> text]

quietReturnsNever(config) == FALSE

\* "if (this.config.quiet) return" at the head of log, info and success
quietReturns(config) == config.quiet

RECURSIVE writeLines(_, _, _, _, _)
\* the loop over the lines of a message: blank lines are skipped
writeLines(lg, taskName, lines, stream, red) ==
  IF lines = <<>> THEN <<>>
  ELSE (IF isBlank(Head(lines)) THEN <<>>
        ELSE <<Written(stream, formatLine(lg, taskName, Head(lines), red))>>)
       \o writeLines(lg, taskName, Tail(lines), stream, red)

\* Logger.log(taskName, message): what it writes
logLines(lg, taskName, message) ==
  IF quietReturns(lg.config) THEN <<>>
  ELSE writeLines(lg, taskName, message, "log", FALSE)

errorLinesUnlessQuiet(lg, taskName, message) ==
  IF lg.config.quiet THEN <<>> ELSE writeLines(lg, taskName, message, "error", TRUE)

\* Logger.error(taskName, message): what it writes
errorLines(lg, taskName, message) == writeLines(lg, taskName, message, "error", TRUE)

\* Logger.info / Logger.success: the message after its mark, as one call
markedLine(lg, mark, message) ==
  IF quietReturns(lg.config) THEN <<>>
  ELSE <<Written("log", [mark |-> mark, message |-> message])>>

\* Logger.warn
warnLine(lg, message) == <<Written("warn", [mark |-> "warn", message |-> message])>>

\* a call on the logger ("logger") or on a TaskLogger ("task"); n counts
\* the calls made so far
NoCall == [op |-> "none", via |-> "", task |-> "", message |-> <<>>, n |-> 0]
Call(op, via, task, message, n) ==
  [op |-> op, via |-> via, task |-> task, message |-> message, n |-> n]

\* no Logger is driven: the state of the logger variables in the other
\* operations
NoLogger ==
  /\ logger = Logger([quiet |-> FALSE, prefix |-> PrefixDefault])
  /\ taskLoggers = {} /\ console = <<>> /\ logCall = NoCall

InitExecutor ==
  /\ running = {} /\ completed = {} /\ failedNodes = {} /\ failedTasks = {}
  /\ tcompleted = {} /\ processes = [nm \in {} |-> <<0, 0>>]
  /\ aborted = FALSE /\ timer = "none" /\ timers = 0
  /\ signals = [nm \in {} |-> <<>>]
  /\ nstate = <<>> /\ tstate = <<>>

InitBuild ==
  /\ entry = "build" /\ pc = "build"
  /\ scripts \in Manifests
  /\ \E s \in TargetLists(MaxTargets) : patterns = [i \in 1..Len(s) |-> Plain(s[i])]
  /\ command \in Commands
  /\ args = <<>> /\ cont = FALSE
  /\ nodeCounter = 0 /\ earlier = <<>> /\ nodes = <<>> /\ err = "none" /\ errNodes = {} /\ exitCode = -1
  /\ InitExecutor
  /\ NoLogger

\* target lists with sequential-group indices: every target carries an
\* index 0..MaxSeqIdx or none (-1)
SeqTargetLists ==
  UNION {{[i \in 1..Len(s) |-> IF t[i] < 0 THEN Plain(s[i]) ELSE SeqIdx(t[i], s[i])] :
            t \in [1..Len(s) -> -1..MaxSeqIdx]} : s \in TargetLists(4)}

IsFrunkScript(sc) == sc.command[1].w = "f"

\* manifests in which every orchestration invocation names one dependency
SingleDepManifests ==
  {m \in Manifests : \A i \in 1..Len(m) : IsFrunkScript(m[i]) => Len(m[i].command[2].g) = 1}

\* manifests with at most one orchestration invocation, of one dependency
SeqManifests ==
  {m \in SingleDepManifests : Cardinality({i \in 1..Len(m) : IsFrunkScript(m[i])}) <= 1}

\* nested dependency groups: up to MaxGroup different patterns out of
\* literals (d may be missing from the manifest), the glob "*" and
\* exclusions
MaxGroup == 4
GroupAlphabet ==
  {Lit("b"), Lit("c"), Lit("d"), Lit("*"), Excl("a"), Excl("c"), Excl("*")}
NestedGroups ==
  UNION {{g \in [1..k -> GroupAlphabet] : \A i, j \in 1..k : i # j => g[i] # g[j]} :
           k \in 1..MaxGroup}

\* the commands of the manifest entry a: plain, the bare form, an entry
\* that starts like an invocation but has no bracket group, and
\* invocations with a group, with and without flags and trailing command,
\* by name and by the path of the cli script
NestedCommands ==
  {Echo("a"),
   <<Word("f"), Word("--"), Word("echo"), Word("a")>>,
   <<Word("frunk"), Word("--"), Word("echo"), Word("a")>>,
   <<Word("f"), Word("x")>>,
   <<Word("node"), Word("node_modules/frunk/dist/cli.js"), Group(<<Lit("b")>>),
     Word("--"), Word("echo"), Word("a")>>,
   <<Word("node"), Word("node_modules/frunk/dist/cli.js"), Group(<<Lit("b")>>)>>}
  \cup UNION {{ <<Word("f"), Group(g)>>,
                FrunkWith(g, "a"),
                <<Word("frunk"), Group(g), Word("-q"), Word("--"), Word("echo"), Word("a")>> } :
              g \in NestedGroups}

InitNested ==
  /\ entry = "build" /\ pc = "build"
  /\ \E ca \in NestedCommands :
     \E cb \in {Echo("b"), FrunkWith(<<Lit("c")>>, "b")} :
     \E d \in {<<>>, <<Script("d", Echo("d"))>>} :
        scripts = <<Script("a", ca), Script("b", cb), Script("c", Echo("c"))>> \o d
  /\ patterns \in {<<Plain("a")>>, <<Plain("a"), Plain("b")>>}
  /\ command = NoCommand
  /\ args = <<>> /\ cont = FALSE
  /\ nodeCounter = 0 /\ earlier = <<>> /\ nodes = <<>> /\ err = "none" /\ errNodes = {} /\ exitCode = -1
  /\ InitExecutor
  /\ NoLogger

PlainManifests == {m \in Manifests : \A i \in 1..Len(m) : ~IsFrunkScript(m[i])}

InitSeq ==
  /\ entry = "build" /\ pc = "build"
  /\ scripts \in SeqManifests
  /\ patterns \in SeqTargetLists
  /\ command = NoCommand
  /\ args = <<>> /\ cont = FALSE
  /\ nodeCounter = 0 /\ earlier = <<>> /\ nodes = <<>> /\ err = "none" /\ errNodes = {} /\ exitCode = -1
  /\ InitExecutor
  /\ NoLogger

\* node lists given to execute directly: node k has id k - 1, depends on
\* some of the nodes before it, and has one task; at most one node of the
\* list has up to MaxTasks tasks instead and may be sequential
TaskNames == << <<"t11", "t12", "t13">>, <<"t21", "t22", "t23">>,
                <<"t31", "t32", "t33">>, <<"t41", "t42", "t43">> >>

ExecNode(k, deps, ntasks, sequential) ==
  [id |-> k - 1,
   tasks |-> [j \in 1..ntasks |-> mkTask(TaskNames[k][j], Echo(TaskNames[k][j]))],
   dependencies |-> SortSet(deps),
   sequential |-> sequential]

ExecNodeLists ==
  UNION {
    {[k \in 1..n |-> ExecNode(k, deps[k], IF k = big THEN nt ELSE 1, k = big /\ sq)] :
       deps \in {d \in [1..n -> SUBSET (0..(n - 1))] : \A k \in 1..n : d[k] \subseteq 0..(k - 2)},
       big \in 0..n, nt \in 0..MaxTasks, sq \in BOOLEAN}
    : n \in 0..MaxNodes}

InitExec ==
  /\ entry = "exec" /\ pc = "exec"
  /\ nodes \in ExecNodeLists
  /\ cont \in BOOLEAN
  /\ scripts = <<>> /\ args = <<>> /\ patterns = <<>> /\ command = NoCommand
  /\ nodeCounter = 0 /\ earlier = <<>> /\ err = "none" /\ errNodes = {} /\ exitCode = -1
  /\ InitExecutor
  /\ NoLogger

\* node lists given to execute whose dependencies are not checked: a node
\* may name itself, a later node, or an id that no node of the list has
LooseNodeLists ==
  UNION {
    {[k \in 1..n |-> ExecNode(k, deps[k], 1, FALSE)] : deps \in [1..n -> SUBSET (0..n)]}
    : n \in 1..MaxLooseNodes}

InitLoose ==
  /\ entry = "exec" /\ pc = "exec"
  /\ nodes \in LooseNodeLists
  /\ cont \in BOOLEAN
  /\ scripts = <<>> /\ args = <<>> /\ patterns = <<>> /\ command = NoCommand
  /\ nodeCounter = 0 /\ earlier = <<>> /\ err = "none" /\ errNodes = {} /\ exitCode = -1
  /\ InitExecutor
  /\ NoLogger

\* any node list: ids need not differ, and a dependency may name the node
\* itself, a later node, or an id that no node of the list has
MaxAnyNodes == 2
AnyNode(k, id, deps) == [ExecNode(k, deps, 1, FALSE) EXCEPT !.id = id]

InitAny ==
  /\ entry = "exec" /\ pc = "exec"
  /\ \E n \in 0..MaxAnyNodes :
     \E ids \in [1..n -> 0..(n - 1)] : \E deps \in [1..n -> SUBSET (0..n)] :
        nodes = [k \in 1..n |-> AnyNode(k, ids[k], deps[k])]
  /\ cont \in BOOLEAN
  /\ scripts = <<>> /\ args = <<>> /\ patterns = <<>> /\ command = NoCommand
  /\ nodeCounter = 0 /\ earlier = <<>> /\ err = "none" /\ errNodes = {} /\ exitCode = -1
  /\ InitExecutor
  /\ NoLogger

\* the chains "[..]->[..]" that cut the target list s into groups: cuts is
\* the set of positions after which an arrow stands
ChainOf(s, cuts) ==
  LET bounds == SortSet(cuts \cup {0, Len(s)})
  IN [g \in 1..(Len(bounds) - 1) |->
        [i \in 1..(bounds[g + 1] - bounds[g]) |-> Lit(s[bounds[g] + i])]]

Chains(S) == UNION {{ChainOf(s, cuts) : cuts \in SUBSET (1..(Len(s) - 1))} : s \in S \ {<<>>}}

\* the words a command line may carry after "--": none (no "--"), a plain
\* command, an invocation of the orchestrator under either alias, and the
\* bare alias
TrailingCommands ==
  {<<>>, <<"echo", "hi">>, <<"f", "x">>, <<"frunk", "x">>, <<"f">>}

RunArgs(chain, c, cmd) ==
  <<Bracket(chain)>> \o (IF c THEN <<Arg("-c")>> ELSE <<>>)
     \o (IF cmd # <<>> THEN <<Arg("--")>> \o [k \in 1..Len(cmd) |-> Arg(cmd[k])] ELSE <<>>)

\* Runner.run from the command line: a bracket argument (a group or a
\* chain), optionally -c, optionally a trailing command; either few targets
\* over a manifest with nested dependencies, or up to four targets over a
\* manifest of plain scripts
InitRun ==
  /\ entry = "run" /\ pc = "run"
  /\ \/ /\ scripts \in SingleDepManifests
        /\ \E chain \in Chains(TargetLists(MaxRunTargets)), c \in BOOLEAN, cmd \in TrailingCommands :
              args = RunArgs(chain, c, cmd)
     \/ /\ scripts \in PlainManifests
        /\ \E chain \in Chains(TargetLists(4)), c \in BOOLEAN, cmd \in TrailingCommands :
              args = RunArgs(chain, c, cmd)
  /\ patterns = <<>> /\ command = NoCommand /\ cont = FALSE
  /\ nodeCounter = 0 /\ earlier = <<>> /\ nodes = <<>> /\ err = "none" /\ errNodes = {} /\ exitCode = -1
  /\ InitExecutor
  /\ NoLogger

\* ------------------------------------------------------------ actions
\* a call builder.buildGraph(patterns, scripts, {}, command)
BuildGraph ==
  /\ pc = "build"
  /\ \E r \in {buildGraph(patterns, scripts, command, nodeCounter)} :
        /\ nodes' = r.nodes
        /\ nodeCounter' = r.counter
        /\ err' = IF r.ok THEN "none" ELSE "cycle"
        /\ pc' = IF r.ok THEN "built" ELSE "threw"
  /\ UNCHANGED <<earlier, logVars, inputVars, errNodes, exitCode, execVars>>

\* a call builder.validateGraph(nodes) on the list just built
ValidateGraph ==
  /\ pc = "built"
  /\ pc' = "validated"
  /\ err' = IF validateGraph(nodes) THEN "none" ELSE "cycle"
  /\ UNCHANGED <<earlier, logVars, inputVars, nodeCounter, nodes, errNodes, exitCode, execVars>>

\* ------------------------------------------------------------ Parser
\* extractCommand: the arguments before the first "--" and the words after
\* it (joined by blanks); NoCommand when there is no "--"
extractCommand(as) ==
  LET seps == {i \in 1..Len(as) : as[i].w = "--"}
      separatorIndex == CHOOSE i \in seps : \A j \in seps : i <= j
  IN IF seps = {} THEN [argsToProcess |-> as, command |-> NoCommand]
     ELSE [argsToProcess |-> SubSeq(as, 1, separatorIndex - 1),
           command |-> [k \in 1..(Len(as) - separatorIndex) |-> Word(as[separatorIndex + k].w)]]

\* formatSequentialPart: "SEQ:[a,b]" for a part with a comma, else "SEQ:a"
formatSequentialPart(part) ==
  IF Len(part) >= 2 THEN SeqGrp(part) ELSE SeqOne(part[1].n)

\* processPattern of the parser on one bracket argument
parseBracket(arg) ==
  IF Len(arg.chain) >= 2
  THEN [i \in 1..Len(arg.chain) |-> formatSequentialPart(arg.chain[i])]
  ELSE arg.chain[1]

RECURSIVE parsePatterns(_)
parsePatterns(as) ==
  IF as = <<>> THEN <<>>
  ELSE (IF Head(as).w = "[" THEN parseBracket(Head(as)) ELSE <<>>) \o parsePatterns(Tail(as))

parseAllowingNested(as) ==
  LET x == extractCommand(as)
  IN [ok |-> TRUE,
      command |-> x.command,
      patterns |-> parsePatterns(x.argsToProcess),
      continue |-> \E i \in 1..Len(x.argsToProcess) :
                      x.argsToProcess[i].w \in {"-c", "--continue", "--c", "-qc", "-cq"}]

\* Parser.parse: ok = FALSE is the nested-frunk throw
parse(as) ==
  LET x == extractCommand(as)
      nested == Len(x.command) >= 2 /\ x.command[1].w \in {"f", "frunk"}
  IN [ok |-> ~nested,
      command |-> x.command,
      patterns |-> parsePatterns(x.argsToProcess),
      continue |-> \E i \in 1..Len(x.argsToProcess) :
                      x.argsToProcess[i].w \in {"-c", "--continue", "--c", "-qc", "-cq"}]

\* ---------------------------------------------------------- Executor
NodeIdx == 1..Len(nodes)

canRunIgnoringDependencies(node, done, run) ==
  node.id \notin done /\ node.id \notin run

canRunAgain(node, done, run) ==
  /\ node.id \notin run
  /\ \A k \in 1..Len(node.dependencies) : node.dependencies[k] \in done

canRunDependenciesRunning(node, done, run) ==
  /\ node.id \notin done /\ node.id \notin run
  /\ \A k \in 1..Len(node.dependencies) : node.dependencies[k] \in run

canRunWithTasks(node, done, run) ==
  /\ Len(node.tasks) >= 1
  /\ node.id \notin done /\ node.id \notin run
  /\ \A k \in 1..Len(node.dependencies) : node.dependencies[k] \in done

canRunFirstDependency(node, done, run) ==
  /\ node.id \notin done /\ node.id \notin run
  /\ Len(node.dependencies) >= 1 => node.dependencies[1] \in done

\* canRun(node) of execute, for the sets completed and running
canRun(node, done, run) ==
  /\ node.id \notin done /\ node.id \notin run
  /\ \A k \in 1..Len(node.dependencies) : node.dependencies[k] \in done

nothingRunningNever(run) == FALSE

\* "running.size === 0" in the branch for an empty runnable list
nothingRunning(run) == run = {}

firstTasksAll(node) == 1..Len(node.tasks)

\* the runTask calls a fresh runNode call makes before its first await
firstTasks(node) ==
  IF node.sequential THEN (IF Len(node.tasks) >= 1 THEN {1} ELSE {})
  ELSE 1..Len(node.tasks)

\* this.processes after processes.set(task.name, ...) for the spawns of S
\* (pairs <<node index, task index>>), made in index order
setProcesses(procs, ns, S) ==
  LET names == {ns[x[1]].tasks[x[2]].name : x \in S}
      lastOf(nm) ==
        CHOOSE x \in S :
          /\ ns[x[1]].tasks[x[2]].name = nm
          /\ \A y \in S : ns[y[1]].tasks[y[2]].name = nm =>
                (y[1] < x[1] \/ (y[1] = x[1] /\ y[2] <= x[2]))
  IN [nm \in (DOMAIN procs) \cup names |-> IF nm \in names THEN lastOf(nm) ELSE procs[nm]]

deleteProcess(procs, nm) == [x \in (DOMAIN procs) \ {nm} |-> procs[x]]

Settled(ns) == ns \in {"completed", "failed"}

RejectExitZero(kind, ids) ==
  /\ err' = kind
  /\ errNodes' = ids
  /\ pc' = IF entry = "run" THEN "exited" ELSE "rejected"
  /\ exitCode' = IF entry = "run" THEN 0 ELSE exitCode

RejectUnlessContinue(kind, ids) ==
  IF cont THEN pc' = "resolved" /\ UNCHANGED <<err, errNodes, exitCode>>
  ELSE /\ err' = kind
       /\ errNodes' = ids
       /\ pc' = IF entry = "run" THEN "exited" ELSE "rejected"
       /\ exitCode' = IF entry = "run" THEN 1 ELSE exitCode

\* the outcome of a settled execute: Runner.run's catch calls process.exit(1)
Reject(kind, ids) ==
  /\ err' = kind
  /\ errNodes' = ids
  /\ pc' = IF entry = "run" THEN "exited" ELSE "rejected"
  /\ exitCode' = IF entry = "run" THEN 1 ELSE exitCode

\* one evaluation of the main loop of execute: the loop test, the runnable
\* nodes, the stuck check, and the synchronous part of every runNode call
Loop ==
  /\ pc = "loop"
  /\ IF ~(Cardinality(completed) < Len(nodes) /\ ~aborted)
     THEN /\ pc' = "resolved"
          /\ UNCHANGED <<err, errNodes, exitCode, execVars>>
     ELSE
       LET runnableNodes == {i \in NodeIdx : canRun(nodes[i], completed, running)}
           remaining == {i \in NodeIdx : nodes[i].id \notin completed}
       IN
       IF runnableNodes = {}
       THEN IF nothingRunning(running)
            THEN /\ IF remaining # {} THEN Reject("stuck", {nodes[i].id : i \in remaining})
                    ELSE pc' = "resolved" /\ UNCHANGED <<err, errNodes, exitCode>>
                 /\ UNCHANGED execVars
            ELSE \* setTimeout(POLL_INTERVAL_MS), then the loop again
                 UNCHANGED <<pc, err, errNodes, exitCode, execVars>>
       ELSE
         LET spawned == UNION {{<<i, j>> : j \in firstTasks(nodes[i])} : i \in runnableNodes}
             instant == {i \in runnableNodes : firstTasks(nodes[i]) = {}}
         IN /\ tstate' = [i \in NodeIdx |-> [j \in 1..Len(nodes[i].tasks) |->
                            IF <<i, j>> \in spawned THEN "live" ELSE tstate[i][j]]]
            /\ nstate' = [i \in NodeIdx |->
                            IF i \in instant THEN "completed"
                            ELSE IF i \in runnableNodes THEN "running" ELSE nstate[i]]
            /\ running' = running \cup {nodes[i].id : i \in runnableNodes \ instant}
            /\ completed' = completed \cup {nodes[i].id : i \in instant}
            /\ processes' = setProcesses(processes, nodes, spawned)
            /\ pc' = IF runnableNodes = instant THEN "loop" ELSE "await"
            /\ UNCHANGED <<err, errNodes, exitCode, failedNodes, failedTasks, tcompleted,
                           aborted, timer, timers, signals>>
  /\ UNCHANGED <<earlier, logVars, inputVars, nodeCounter, nodes>>

taskOutcomeIgnoringAbort(ok, isAborted) == IF ok THEN "ok" ELSE "failed"

\* what runTask makes of the exit of its subprocess: "ok" for status zero;
\* for a rejected await "failed" (the failure is logged and recorded in
\* this.failed) unless the executor is aborted, then "absorbed"
taskOutcome(ok, isAborted) ==
  IF ok THEN "ok" ELSE IF isAborted THEN "absorbed" ELSE "failed"

runTaskThrowsNever(out, continue) == FALSE

runTaskThrowsAlways(out, continue) == out = "failed"

\* whether runTask rethrows: a recorded failure, unless options.continue
runTaskThrows(out, continue) == out = "failed" /\ ~continue

startsNextStepWhileAborted(node, j, threw, isAborted) ==
  node.sequential /\ ~threw /\ j < Len(node.tasks)

\* the sequential branch of runNode after the await of task j: the for loop
\* goes on to task j + 1 unless runTask threw or this.aborted is set
startsNextStep(node, j, threw, isAborted) ==
  node.sequential /\ ~threw /\ j < Len(node.tasks) /\ ~isAborted

batchSettledByFirst(ns) == \E k \in DOMAIN ns : ns[k] # "running"

\* the Promise.all over the runNode calls of the batch resolves when every
\* one of them has settled (ns: the states of the runNode calls)
batchSettled(ns) == \A k \in DOMAIN ns : ns[k] # "running"

\* the subprocess of task j of node i exits (ok: status zero); runTask
\* resumes after `await proc`, then the runNode call of the node, then the
\* Promise.all of the batch that execute awaits
TaskExit(i, j, ok) ==
  /\ pc \in {"await", "resolved", "rejected"}
  /\ i \in NodeIdx /\ j \in 1..Len(nodes[i].tasks)
  /\ tstate[i][j] = "live"
  /\ LET node == nodes[i]
         name == node.tasks[j].name
         out == taskOutcome(ok, aborted)
         threw == runTaskThrows(out, cont)
         inFlight == nstate[i] = "running"
         next == inFlight /\ startsNextStep(node, j, threw, aborted)
         othersLive == \E k \in 1..Len(node.tasks) : k # j /\ tstate[i][k] = "live"
         nodeFails == inFlight /\ threw
         nodeCompletes == inFlight /\ ~threw /\ ~next
                            /\ (node.sequential \/ ~othersLive)
         procs1 == IF ok THEN deleteProcess(processes, name) ELSE processes
         ns1 == [nstate EXCEPT ![i] = IF nodeFails THEN "failed"
                                      ELSE IF nodeCompletes THEN "completed" ELSE @]
     IN /\ tstate' = [tstate EXCEPT ![i] =
                        [k \in 1..Len(node.tasks) |->
                           IF k = j THEN out
                           ELSE IF next /\ k = j + 1 THEN "live" ELSE @[k]]]
        /\ tcompleted' = IF ok THEN tcompleted \cup {name} ELSE tcompleted
        /\ failedTasks' = IF out = "failed" THEN failedTasks \cup {name}
                          ELSE failedTasks
        /\ processes' = IF next THEN setProcesses(procs1, nodes, {<<i, j + 1>>}) ELSE procs1
        /\ nstate' = ns1
        /\ failedNodes' = IF nodeFails THEN failedNodes \cup {node.id} ELSE failedNodes
        /\ completed' = IF nodeCompletes THEN completed \cup {node.id} ELSE completed
        /\ running' = IF nodeFails \/ nodeCompletes THEN running \ {node.id} ELSE running
        /\ IF pc = "await" /\ nodeFails THEN Reject("task", {})
           ELSE /\ pc' = IF pc = "await" /\ batchSettled(ns1) THEN "loop" ELSE pc
                /\ UNCHANGED <<err, errNodes, exitCode>>
  /\ UNCHANGED <<earlier, logVars, inputVars, nodeCounter, nodes, aborted, timer, timers, signals>>

killAllForced(sigs, procs, sig) ==
  [nm \in (DOMAIN sigs) \cup (DOMAIN procs) |->
     IF nm \in DOMAIN procs
     THEN Append(IF nm \in DOMAIN sigs THEN sigs[nm] ELSE <<>>, "SIGKILL")
     ELSE sigs[nm]]

\* running.process.kill(sig) for every entry of the process table procs
killAll(sigs, procs, sig) ==
  [nm \in (DOMAIN sigs) \cup (DOMAIN procs) |->
     IF nm \in DOMAIN procs
     THEN Append(IF nm \in DOMAIN sigs THEN sigs[nm] ELSE <<>>, sig)
     ELSE sigs[nm]]

shutdownReturnsNever(isAborted) == FALSE

\* "if (this.aborted) return" at the head of shutdown
shutdownReturns(isAborted) == isAborted

\* the SIGINT / SIGTERM handler registered by the constructor
Shutdown ==
  /\ pc \in {"await", "resolved", "rejected"}
  /\ IF shutdownReturns(aborted) THEN UNCHANGED <<aborted, timer, timers, signals>>
     ELSE /\ aborted' = TRUE
          /\ signals' = killAll(signals, processes, "SIGTERM")
          /\ timer' = "armed"
          /\ timers' = timers + 1
  /\ UNCHANGED <<earlier, logVars, inputVars, pc, nodeCounter, nodes, err, errNodes, exitCode, running,
                 completed, failedNodes, failedTasks, tcompleted, processes, nstate, tstate>>

\* the callback of the grace timer: SIGKILL, then process.exit(0)
GraceTimer ==
  /\ pc \in {"await", "resolved", "rejected"}
  /\ timer = "armed"
  /\ timer' = "fired"
  /\ signals' = killAll(signals, processes, "SIGKILL")
  /\ pc' = "exited"
  /\ exitCode' = 0
  /\ UNCHANGED <<earlier, logVars, inputVars, nodeCounter, nodes, err, errNodes, running, completed,
                 failedNodes, failedTasks, tcompleted, processes, aborted, timers,
                 nstate, tstate>>

\* the state of a fresh execute call on the list ns
StartExecute(ns) ==
  /\ nstate' = [i \in 1..Len(ns) |-> "pending"]
  /\ tstate' = [i \in 1..Len(ns) |-> [j \in 1..Len(ns[i].tasks) |-> "idle"]]
  /\ UNCHANGED <<running, completed, failedNodes, failedTasks, tcompleted,
                 processes, aborted, timer, timers, signals>>

\* a call executor.execute(nodes) up to the first evaluation of the loop
ExecuteCall ==
  /\ pc = "exec"
  /\ pc' = "loop"
  /\ StartExecute(nodes)
  /\ UNCHANGED <<earlier, logVars, inputVars, nodeCounter, nodes, err, errNodes, exitCode>>

\* ------------------------------------------------------------- Runner
\* Runner.run(args, scripts) up to the call of execute; every throw on the
\* way is caught by run, which reports it and calls process.exit(1)
RunnerRun ==
  /\ pc = "run"
  /\ \E parsed \in {parse(args)} :
     \E resolved \in {resolvePatterns(parsed.patterns, scripts)} :
     \E built \in {buildGraph(resolved.result, scripts, parsed.command, nodeCounter)} :
     \E valid \in {validatePatterns(parsed.patterns, scripts)} :
     \E failure \in {IF ~parsed.ok THEN "parse"
                      ELSE IF ~resolved.ok THEN "notfound"
                      ELSE IF ~valid THEN "nomatch"
                      ELSE IF ~built.ok THEN "cycle"
                      ELSE IF ~validateGraph(built.nodes) THEN "cycle"
                      ELSE "none"} :
     \E gotTo \in {IF ~parsed.ok THEN 0 ELSE IF ~resolved.ok THEN 1
                    ELSE IF ~valid THEN 2
                    ELSE IF ~built.ok THEN 3 ELSE 4} :
        /\ err' = failure
        /\ cont' = IF gotTo >= 1 THEN (parsed.continue \/ cont) ELSE cont
        /\ patterns' = IF gotTo >= 2 THEN resolved.result ELSE patterns
        /\ command' = IF gotTo >= 1 THEN parsed.command ELSE command
        /\ nodes' = IF gotTo >= 4 THEN built.nodes ELSE nodes
        /\ nodeCounter' = IF gotTo >= 4 THEN built.counter ELSE nodeCounter
        /\ IF failure = "none"
           THEN pc' = "loop" /\ exitCode' = exitCode /\ StartExecute(built.nodes)
           ELSE pc' = "exited" /\ exitCode' = 1 /\ UNCHANGED execVars
  /\ UNCHANGED <<earlier, logVars, entry, scripts, args, errNodes>>

NextBuild == BuildGraph \/ ValidateGraph

MaxValidateNodes == 4

\* node lists given to validateGraph directly: any dependency relation
\* over the ids of n nodes (self dependencies and cycles included)
ValidateNodeLists(n) ==
  {[k \in 1..n |-> ExecNode(k, deps[k], 1, FALSE)] : deps \in [1..n -> SUBSET (0..(n - 1))]}

\* these for up to MaxValidateNodes nodes, and the lists with dependencies
\* on unknown ids
InitValidate ==
  /\ entry = "validate" /\ pc = "built"
  /\ \/ \E n \in 0..MaxValidateNodes : nodes \in ValidateNodeLists(n)
     \/ nodes \in LooseNodeLists
  /\ cont = FALSE
  /\ scripts = <<>> /\ args = <<>> /\ patterns = <<>> /\ command = NoCommand
  /\ nodeCounter = 0 /\ earlier = <<>> /\ err = "none" /\ errNodes = {} /\ exitCode = -1
  /\ InitExecutor
  /\ NoLogger

\* validateGraph on a list given directly or on the list buildGraph returned
SpecValidate == (InitValidate \/ InitBuild) /\ [][NextBuild]_vars

MaxBuilds == 2

\* a further call builder.buildGraph(patterns, scripts, {}, command) on the
\* same builder, for another target list; the list returned before is
\* remembered by its ids
BuildGraphAgain ==
  /\ pc \in {"built", "validated", "threw"}
  /\ entry = "build" /\ Len(earlier) + 1 < MaxBuilds
  /\ \E s \in TargetLists(MaxTargets) :
     \E ps \in {[i \in 1..Len(s) |-> Plain(s[i])]} :
     \E r \in {buildGraph(ps, scripts, command, nodeCounter)} :
        /\ patterns' = ps
        /\ nodes' = r.nodes
        /\ nodeCounter' = r.counter
        /\ err' = IF r.ok THEN "none" ELSE "cycle"
        /\ pc' = IF r.ok THEN "built" ELSE "threw"
  /\ earlier' = Append(earlier, {nodes[i].id : i \in 1..Len(nodes)})
  /\ UNCHANGED <<logVars, entry, scripts, args, command, cont, errNodes, exitCode, execVars>>

NextRebuild == BuildGraph \/ ValidateGraph \/ BuildGraphAgain

\* successive buildGraph calls on one GraphBuilder
SpecRebuild == InitBuild /\ [][NextRebuild]_vars

SpecBuild == InitBuild /\ [][NextBuild]_vars

SpecSeq == InitSeq /\ [][NextBuild]_vars
SpecNested == InitNested /\ [][NextBuild]_vars

NextExec ==
  \/ ExecuteCall
  \/ Loop
  \/ \E i \in NodeIdx, j \in 1..(MaxTasks + 1), ok \in BOOLEAN : TaskExit(i, j, ok)
  \/ Shutdown
  \/ GraceTimer

SpecExec == InitExec /\ [][NextExec]_vars

SpecLoose == InitLoose /\ [][NextExec]_vars

\* some live subprocess exits
TaskExits == \E i \in NodeIdx, j \in 1..(MaxTasks + 1), ok \in BOOLEAN : TaskExit(i, j, ok)

\* execute under the event loop: the call is made, a continuation of
\* execute that is ready runs, and a subprocess that was spawned exits;
\* termination requests may or may not arrive
SpecExecFair ==
  /\ InitExec /\ [][NextExec]_vars
  /\ WF_vars(ExecuteCall) /\ WF_vars(Loop) /\ WF_vars(TaskExits)

\* the same on any node list
SpecAnyFair ==
  /\ InitAny /\ [][NextExec]_vars
  /\ WF_vars(ExecuteCall) /\ WF_vars(Loop) /\ WF_vars(TaskExits)

\* ------------------------------------------------------ Logger calls
LoggerConfigs ==
  {[quiet |-> q, prefix |-> p] :
     q \in BOOLEAN, p \in {PrefixDefault, PrefixNone, PrefixCustom(">")}}

InitLog ==
  /\ entry = "log" /\ pc = "log"
  /\ logger \in {Logger(config) : config \in LoggerConfigs}
  /\ taskLoggers = {} /\ console = <<>> /\ logCall = NoCall
  /\ scripts = <<>> /\ args = <<>> /\ patterns = <<>> /\ command = NoCommand
  /\ cont = FALSE /\ nodes = <<>>
  /\ nodeCounter = 0 /\ earlier = <<>> /\ err = "none" /\ errNodes = {} /\ exitCode = -1
  /\ InitExecutor

\* a call that writes the entries written and leaves the logger in lg
LoggerCall(call, lg, written) ==
  /\ entry = "log" /\ logCall.n < MaxCalls
  /\ logCall' = call
  /\ logger' = lg
  /\ console' = console \o written
  /\ UNCHANGED <<earlier, inputVars, pc, nodeCounter, nodes, err, errNodes, exitCode,
                 execVars>>

RegisterTask ==
  \E t \in LogTaskNames :
    /\ LoggerCall(Call("registerTask", "logger", t, <<>>, logCall.n + 1),
                  registerTask(logger, t), <<>>)
    /\ UNCHANGED taskLoggers

CreateTaskLogger ==
  \E t \in LogTaskNames :
    /\ LoggerCall(Call("createTaskLogger", "logger", t, <<>>, logCall.n + 1),
                  registerTask(logger, t), <<>>)
    /\ taskLoggers' = taskLoggers \cup {t}

LogLog ==
  \E t \in LogTaskNames, m \in Messages :
    /\ LoggerCall(Call("log", "logger", t, m, logCall.n + 1), logger, logLines(logger, t, m))
    /\ UNCHANGED taskLoggers

LogError ==
  \E t \in LogTaskNames, m \in Messages :
    /\ LoggerCall(Call("error", "logger", t, m, logCall.n + 1), logger,
                  errorLines(logger, t, m))
    /\ UNCHANGED taskLoggers

LogInfo ==
  \E m \in Messages :
    /\ LoggerCall(Call("info", "logger", "", m, logCall.n + 1), logger,
                  markedLine(logger, "info", m))
    /\ UNCHANGED taskLoggers

LogSuccess ==
  \E m \in Messages :
    /\ LoggerCall(Call("success", "logger", "", m, logCall.n + 1), logger,
                  markedLine(logger, "success", m))
    /\ UNCHANGED taskLoggers

LogWarn ==
  \E m \in Messages :
    /\ LoggerCall(Call("warn", "logger", "", m, logCall.n + 1), logger, warnLine(logger, m))
    /\ UNCHANGED taskLoggers

\* TaskLogger.log / TaskLogger.error: the parent's call with the task name
TaskLog ==
  \E t \in taskLoggers, m \in Messages :
    /\ LoggerCall(Call("log", "task", t, m, logCall.n + 1), logger, logLines(logger, t, m))
    /\ UNCHANGED taskLoggers

TaskError ==
  \E t \in taskLoggers, m \in Messages :
    /\ LoggerCall(Call("error", "task", t, m, logCall.n + 1), logger,
                  errorLines(logger, t, m))
    /\ UNCHANGED taskLoggers

NextLog ==
  \/ RegisterTask
  \/ CreateTaskLogger
  \/ LogLog
  \/ LogError
  \/ LogInfo
  \/ LogSuccess
  \/ LogWarn
  \/ TaskLog
  \/ TaskError

SpecLog == InitLog /\ [][NextLog]_vars

\* ------------------------------------------------- pattern resolution
MaxPatterns == 3

\* the patterns of one bracket argument: names and "*", included, excluded
\* or marked sequential; d may be missing from the manifest
PatternAlphabet ==
  {Lit("a"), Lit("b"), Lit("d"), Lit("*"), Excl("a"), Excl("b"), Excl("*"), SeqOne("a")}

PatternLists == UNION {[1..k -> PatternAlphabet] : k \in 1..MaxPatterns}

InitResolve ==
  /\ entry = "resolve" /\ pc = "resolve"
  /\ scripts \in PlainManifests
  /\ \E ps \in PatternLists : args = <<Bracket(<<ps>>)>>
  /\ patterns = <<>> /\ command = NoCommand /\ cont = FALSE
  /\ nodeCounter = 0 /\ earlier = <<>> /\ nodes = <<>> /\ err = "none" /\ errNodes = {} /\ exitCode = -1
  /\ InitExecutor
  /\ NoLogger

\* a call matcher.resolvePatterns(parsed.patterns, availableScripts)
ResolvePatterns ==
  /\ pc = "resolve"
  /\ \E r \in {resolvePatterns(parse(args).patterns, scripts)} :
        /\ patterns' = r.result
        /\ err' = IF r.ok THEN "none" ELSE "notfound"
        /\ pc' = IF r.ok THEN "resolved" ELSE "threw"
  /\ UNCHANGED <<earlier, logVars, entry, scripts, args, command, cont, nodeCounter, nodes,
                 errNodes, exitCode, execVars>>

\* a call matcher.validatePatterns(parsed.patterns, availableScripts) after
\* a resolution that returned
ValidatePatterns ==
  /\ pc = "resolved" /\ entry = "resolve"
  /\ pc' = "validated"
  /\ err' = IF validatePatterns(parse(args).patterns, scripts) THEN "none" ELSE "nomatch"
  /\ UNCHANGED <<earlier, logVars, inputVars, nodeCounter, nodes, errNodes, exitCode, execVars>>

NextResolve == ResolvePatterns \/ ValidatePatterns

SpecResolve == InitResolve /\ [][NextResolve]_vars

Next ==
  \/ RunnerRun
  \/ Loop
  \/ \E i \in NodeIdx, ok \in BOOLEAN : TaskExit(i, 1, ok)
  \/ Shutdown
  \/ GraceTimer

Spec == InitRun /\ [][Next]_vars

\* execute called directly on a node list, or through Runner.run
SpecAbort == (InitExec \/ InitRun) /\ [][NextExec \/ RunnerRun]_vars

\* ===================================================================
\* Properties
\* ===================================================================
ExecPcs == {"loop", "await", "resolved", "rejected", "exited"}
Exited == {"ok", "failed", "absorbed"}
Started(i) == pc \in ExecPcs /\ i \in DOMAIN nstate

ManifestNames == Range(scriptNamesOf(scripts))

\* the nested dependencies a manifest entry declares, read off its command:
\* the names in the bracket group that are manifest entries
Declared(n) ==
  IF n \in ManifestNames
  THEN LET c == getScript(scripts, n).command
       IN IF Len(c) >= 2 /\ c[1].w = "f" /\ c[2].w = "["
          THEN {c[2].g[i].n : i \in 1..Len(c[2].g)} \cap ManifestNames
          ELSE {}
  ELSE {}

RECURSIVE Closure(_)
\* the names reachable from S along declarations
Closure(S) ==
  LET S2 == S \cup UNION {Declared(n) : n \in S}
  IN IF S2 = S THEN S ELSE Closure(S2)

OnCycle(n) == n \in Closure(Declared(n))

\* the targets of a buildGraph call that are manifest entries
TargetNames == {patterns[i].name : i \in 1..Len(patterns)} \cap ManifestNames

\* the targets named on the command line of Runner.run
ArgTargets ==
  UNION {UNION {{args[k].chain[g][i].n : i \in 1..Len(args[k].chain[g])} :
                  g \in 1..Len(args[k].chain)} : k \in 1..Len(args)}

NodesNamed(n) == {i \in 1..Len(nodes) : Len(nodes[i].tasks) >= 1 /\ nodes[i].tasks[1].name = n}
IdOf(n) == nodes[CHOOSE i \in NodesNamed(n) : TRUE].id
DepIds(i) == Range(nodes[i].dependencies)

\* the nodes that depend on node i, directly or transitively
RECURSIVE DependentsFrom(_)
DependentsFrom(S) ==
  LET S2 == S \cup {k \in 1..Len(nodes) : \E i \in S : nodes[i].id \in DepIds(k)}
  IN IF S2 = S THEN S ELSE DependentsFrom(S2)
Dependents(i) == DependentsFrom({k \in 1..Len(nodes) : nodes[i].id \in DepIds(k)})

\* C1: during execute no task of a node is spawned before every node named
\* in the node's dependencies has been added to completed.
C1_DependenciesCompletedBeforeSpawn ==
  [][\A i \in 1..Len(nodes) :
       (Started(i) /\ \E j \in 1..Len(nodes[i].tasks) :
            tstate[i][j] = "idle" /\ tstate'[i][j] = "live")
       => DepIds(i) \subseteq completed]_vars

\* a node with dependencies has a live subprocess
C1_Witness ==
  \E i \in 1..Len(nodes) :
     /\ Started(i) /\ DepIds(i) # {}
     /\ \E j \in 1..Len(nodes[i].tasks) : tstate[i][j] = "live"

\* C2: buildGraph returns exactly one node per script name reached by
\* discovery, and every script that declares a nested dependency has the id
\* of the single node of that dependency among its dependencies.
C2_Deduplication ==
  pc = "built" =>
    LET R == Closure(TargetNames) IN
    /\ \A n \in R : Cardinality(NodesNamed(n)) = 1
    /\ \A i \in 1..Len(nodes) : Len(nodes[i].tasks) >= 1 =>
          nodes[i].tasks[1].name \in R \cup {"command"}
    /\ \A s \in R : \A x \in Declared(s) :
          \A i \in NodesNamed(s) : IdOf(x) \in DepIds(i)

\* a dependency shared by two sibling scripts has one node and two dependents
C2_Witness ==
  /\ pc = "built"
  /\ \E x \in Closure(TargetNames) :
        /\ Cardinality({s \in Closure(TargetNames) : x \in Declared(s)}) >= 2
        /\ Cardinality(NodesNamed(x)) = 1
        /\ Cardinality({i \in 1..Len(nodes) : IdOf(x) \in DepIds(i)}) >= 2

\* C3: when the declarations reachable from the targets of a run form a
\* cycle, buildGraph throws the circular-dependency error, Runner.run
\* reports it and exits with code 1, and execute is never called: nothing
\* is spawned.
C3_CycleStopsRun ==
  (/\ entry = "run" /\ pc # "run"
   /\ err \notin {"parse", "notfound", "nomatch"}
   /\ \E n \in Closure(ArgTargets \cap ManifestNames) : OnCycle(n))
  => /\ err = "cycle" /\ pc = "exited" /\ exitCode = 1
     /\ nodes = <<>> /\ nstate = <<>> /\ tstate = <<>> /\ DOMAIN processes = {}

\* a run that ended on a transitive cycle a -> b -> c -> a
C3_Witness ==
  /\ entry = "run" /\ err = "cycle" /\ exitCode = 1
  /\ \E n \in ManifestNames : OnCycle(n) /\ n \notin Declared(n)
        /\ \A m \in Declared(n) : n \notin Declared(m)

\* C4: in the list returned by buildGraph every dependency id of a node is
\* the id of a node at a strictly earlier index.
C4_DependenciesFirst ==
  pc = "built" =>
    \A i \in 1..Len(nodes) : \A d \in DepIds(i) :
       \E k \in 1..(i - 1) : nodes[k].id = d

\* a returned list in which some node has two dependencies
C4_Witness ==
  pc = "built" /\ \E i \in 1..Len(nodes) : Cardinality(DepIds(i)) >= 2

SeqIndices == {patterns[i].idx : i \in 1..Len(patterns)} \ {-1}
SeqGroup(k) == {patterns[i].name : i \in {x \in 1..Len(patterns) : patterns[x].idx = k}}
                 \cap ManifestNames
PrevGroup(k) ==
  LET before == {m \in SeqIndices : m < k}
  IN IF before = {} THEN {}
     ELSE SeqGroup(CHOOSE m \in before : \A x \in before : x <= m)

\* C5: with sequential-group indices on the targets, the node of a target
\* of a group depends on exactly its declared nested dependencies and every
\* node of the previous group; a target of the first group gets nothing
\* from grouping.
C5_SequentialGroups ==
  pc = "built" =>
    \A p \in 1..Len(patterns) :
       (patterns[p].idx >= 0 /\ patterns[p].name \in ManifestNames) =>
          \A i \in NodesNamed(patterns[p].name) :
             DepIds(i) = {IdOf(x) : x \in Declared(patterns[p].name)
                                         \cup PrevGroup(patterns[p].idx)}

\* the two examples: SEQ0:a SEQ0:b SEQ1:c SEQ1:d, and SEQ0:a SEQ1:b SEQ2:c
C5_Witness ==
  /\ pc = "built"
  /\ \A i \in 1..Len(scripts) : ~IsFrunkScript(scripts[i])
  /\ patterns = <<SeqIdx(0, "a"), SeqIdx(0, "b"), SeqIdx(1, "c"), SeqIdx(1, "d")>>
  /\ Len(nodes) = 4
  /\ \A n \in {"c", "d"} : \A i \in NodesNamed(n) : DepIds(i) = {IdOf("a"), IdOf("b")}

C5_WitnessThree ==
  /\ pc = "built"
  /\ \A i \in 1..Len(scripts) : ~IsFrunkScript(scripts[i])
  /\ patterns = <<SeqIdx(0, "a"), SeqIdx(1, "b"), SeqIdx(2, "c")>>
  /\ \A i \in NodesNamed("c") : DepIds(i) = {IdOf("b")}

IsChainABCD ==
  /\ entry = "run"
  /\ args[1] = Bracket(<< <<Lit("a"), Lit("b")>>, <<Lit("c"), Lit("d")>> >>)
  /\ ManifestNames = Names
  /\ \A i \in 1..Len(scripts) : ~IsFrunkScript(scripts[i])

\* C6: through Runner.run, for the argument [a,b]->[c,d] over plain scripts,
\* neither c nor d is spawned before both a and b have completed.
C6_ChainOrdersGroups ==
  [][\A n \in {"c", "d"} : \A i \in NodesNamed(n) :
       (IsChainABCD /\ Started(i) /\ tstate[i][1] = "idle" /\ tstate'[i][1] = "live")
       => {IdOf("a"), IdOf("b")} \subseteq completed]_vars

\* C7: with a trailing command and at least one target that is a manifest
\* entry, buildGraph adds one node whose only task is the command, named
\* "command", depending on the nodes of all the targets; with an empty
\* target list the result is that node alone, without dependencies.
C7_CommandNode ==
  (pc = "built" /\ command # NoCommand) =>
    IF patterns = <<>>
    THEN nodes = <<mkNode(nodes[1].id, <<mkTask("command", command)>>, <<>>)>>
    ELSE TargetNames # {} =>
           /\ Cardinality(NodesNamed("command")) = 1
           /\ Len(nodes) = Cardinality(Closure(TargetNames)) + 1
           /\ \A i \in NodesNamed("command") :
                 /\ nodes[i].tasks = <<mkTask("command", command)>>
                 /\ DepIds(i) = {IdOf(t) : t \in TargetNames}
                 /\ Len(nodes[i].dependencies) = Cardinality(TargetNames)

\* the command node depends on a target that is not a leaf
C7_Witness ==
  /\ pc = "built" /\ command # NoCommand
  /\ \E i \in NodesNamed("command") : \E t \in TargetNames :
        /\ IdOf(t) \in DepIds(i)
        /\ \E k \in NodesNamed(t) : DepIds(k) # {}
        /\ Cardinality(DepIds(i)) >= 2

\* C8: in a run with targets and a trailing command, the subprocess of the
\* command is spawned only after the subprocess of every target and of every
\* transitive dependency of the targets has exited.
C8_CommandAfterSubgraph ==
  [][\A i \in NodesNamed("command") :
       (entry = "run" /\ Started(i) /\ tstate[i][1] = "idle" /\ tstate'[i][1] = "live")
       => \A n \in Closure(ArgTargets \cap ManifestNames) :
             /\ NodesNamed(n) # {}
             /\ \A k \in NodesNamed(n) : tstate[k][1] \in Exited]_vars

\* the command is running after a target and a nested dependency of it
C8_Witness ==
  /\ entry = "run"
  /\ \E i \in NodesNamed("command") : Started(i) /\ tstate[i][1] = "live"
  /\ \E n \in ArgTargets : Declared(n) # {}

\* C9: with continueOnError = false, once the failure of a task of node x
\* is recorded, no node depending on x ever leaves pending, and execute
\* has rejected with the task error.
C9_FailureAborts ==
  (entry = "exec" /\ ~cont) =>
    \A i \in 1..Len(nodes) :
       (Started(i) /\ \E j \in 1..Len(nodes[i].tasks) : tstate[i][j] = "failed") =>
          /\ \A k \in Dependents(i) : nstate[k] = "pending"
          /\ err = "task" /\ pc \in {"rejected", "exited"}
          /\ nstate[i] = "failed" /\ nodes[i].id \notin completed

\* a task failed, its dependents are pending and execute has rejected
C9_Witness ==
  /\ entry = "exec" /\ ~cont /\ pc = "rejected"
  /\ \E i \in 1..Len(nodes) :
        /\ \E j \in 1..Len(nodes[i].tasks) : tstate[i][j] = "failed"
        /\ Dependents(i) # {}

\* C10: with continueOnError = true, the node of a task whose failure was
\* recorded is recorded as failed, its id is never added to completed, and
\* the nodes depending on it stay pending.
C10_FailedNodeBlocksDependents ==
  (entry = "exec" /\ cont) =>
    \A i \in 1..Len(nodes) :
       (Started(i) /\ \E j \in 1..Len(nodes[i].tasks) : tstate[i][j] = "failed") =>
          /\ nodes[i].id \notin completed
          /\ \A k \in Dependents(i) : nstate[k] = "pending"

\* the nodes node i depends on, directly or transitively
RECURSIVE DependenciesFrom(_)
DependenciesFrom(S) ==
  LET S2 == S \cup {k \in 1..Len(nodes) : \E i \in S : nodes[k].id \in DepIds(i)}
  IN IF S2 = S THEN S ELSE DependenciesFrom(S2)
Dependencies(i) == DependenciesFrom({k \in 1..Len(nodes) : nodes[k].id \in DepIds(i)})

\* no dependency path leads from x to y or from y to x
Independent(x, y) == x # y /\ y \notin Dependents(x) /\ y \notin Dependencies(x)

TaskFailed(i) == \E j \in 1..Len(nodes[i].tasks) : tstate[i][j] \in {"failed", "absorbed"}

\* C11: with continueOnError = true, from some point on every node that is
\* independent of a node whose task failed has reached completed, unless a
\* termination request arrived or a task of the node itself or of one of
\* its dependencies failed.
C11_IndependentNodesComplete ==
  <>[](pc \in ExecPcs /\
       ((entry = "exec" /\ cont) => \A x \in NodeIdx, y \in NodeIdx :
          (TaskFailed(x) /\ Independent(x, y)) =>
             \/ nstate[y] = "completed" /\ nodes[y].id \in completed
             \/ aborted
             \/ \E k \in {y} \cup Dependencies(y) : TaskFailed(k)))

\* a task failed under continue, and a node independent of it that was
\* launched in a later batch has completed
C11_Witness ==
  /\ entry = "exec" /\ cont /\ ~aborted /\ pc \in ExecPcs
  /\ \E x \in NodeIdx, y \in NodeIdx :
        /\ TaskFailed(x) /\ Independent(x, y)
        /\ DepIds(y) # {}
        /\ nstate[y] = "completed" /\ tstate[y] = <<"ok">>

Uncompleted == {nodes[i].id : i \in {k \in NodeIdx : nodes[k].id \notin completed}}

\* the main loop is entered and finds neither a runnable nor a running node
LoopFindsNothing ==
  /\ pc = "loop" /\ ~aborted /\ Cardinality(completed) < Len(nodes)
  /\ \A i \in NodeIdx : ~canRun(nodes[i], completed, running)
  /\ running = {}

\* C12: an evaluation of the scheduling loop that finds no runnable and no
\* running node while a node is uncompleted rejects execute with the stuck
\* error, whose message lists the ids of the uncompleted nodes, whether or
\* not continueOnError is set; the stuck error is raised in no other way.
C12_StuckRunRejects ==
  [][/\ (LoopFindsNothing /\ Uncompleted # {}) =>
          /\ pc' = "rejected" /\ err' = "stuck"
          /\ errNodes' = Uncompleted /\ errNodes' # {}
     /\ (err # "stuck" /\ err' = "stuck") => LoopFindsNothing]_vars

\* execute has rejected as stuck under continueOnError after a first node
\* had completed
C12_Witness ==
  /\ entry = "exec" /\ cont /\ pc = "rejected" /\ err = "stuck"
  /\ completed # {} /\ errNodes # {}

\* the moves of a node: launched, then completed or failed; a node without
\* tasks passes through running within the loop evaluation that launches it
NodeMoves(i) ==
  \/ nstate'[i] = nstate[i]
  \/ nstate[i] = "pending" /\ nstate'[i] = "running"
  \/ nstate[i] = "pending" /\ nstate'[i] = "completed" /\ firstTasks(nodes[i]) = {}
  \/ nstate[i] = "running" /\ nstate'[i] \in {"completed", "failed"}

\* the moves of a task: spawned once, then exited
TaskMoves(i, j) ==
  \/ tstate'[i][j] = tstate[i][j]
  \/ tstate[i][j] = "idle" /\ tstate'[i][j] = "live"
  \/ tstate[i][j] = "live" /\ tstate'[i][j] \in Exited

\* C13: within one execute call a node only moves pending -> running ->
\* completed or pending -> running -> failed; completed and failed are
\* terminal and exclusive, the sets running, completed and failed hold
\* exactly the nodes in these states, and every task is spawned at most once.
C13_NodeStateMachine ==
  [][(pc \in ExecPcs /\ pc' \in ExecPcs) =>
       \A i \in NodeIdx :
          /\ NodeMoves(i)
          /\ \A j \in 1..Len(nodes[i].tasks) : TaskMoves(i, j)
          /\ ~(nodes[i].id \in completed' /\ nodes[i].id \in failedNodes')
          /\ (nstate'[i] = "running") = (nodes[i].id \in running')
          /\ (nstate'[i] = "completed") = (nodes[i].id \in completed')
          /\ (nstate'[i] = "failed") = (nodes[i].id \in failedNodes')]_vars

\* a node has completed while a node launched after it has failed
C13_Witness ==
  /\ entry = "exec" /\ pc \in ExecPcs
  /\ \E i \in NodeIdx, k \in NodeIdx :
        /\ nstate[i] = "completed" /\ tstate[i] = <<"ok">>
        /\ nodes[i].id \in DepIds(k) /\ nstate[k] = "failed"

AllCompleted == \A i \in NodeIdx : nodes[i].id \in completed

\* some subprocess has exited with a status other than zero
SomeExitNonZero ==
  \E i \in NodeIdx : \E j \in 1..Len(nodes[i].tasks) : tstate[i][j] \in {"failed", "absorbed"}

\* C14: a call of execute on an acyclic node list whose dependencies are
\* nodes of the list eventually resolves with every node id in completed,
\* unless a termination request arrives or a subprocess exits non-zero; and
\* whenever it has resolved without either, completed holds every node id.
C14_SuccessfulTermination ==
  /\ [](entry = "exec" /\ pc = "resolved" /\ ~aborted /\ ~SomeExitNonZero => AllCompleted)
  /\ (entry = "exec" /\ pc = "exec") ~>
        \/ pc = "resolved" /\ err = "none" /\ AllCompleted
        \/ aborted
        \/ pc \in ExecPcs /\ SomeExitNonZero

\* execute has resolved on a list with a dependency, all subprocesses
\* having exited with status zero
C14_Witness ==
  /\ entry = "exec" /\ pc = "resolved" /\ ~aborted /\ AllCompleted
  /\ \E i \in NodeIdx : DepIds(i) # {}
  /\ \A i \in NodeIdx : \A j \in 1..Len(nodes[i].tasks) : tstate[i][j] = "ok"

\* the node list is empty, or is what buildGraph returns for no targets and
\* no command: the placeholder node without tasks
NothingToExecute ==
  nodes = <<>> \/ nodes = buildGraph(<<>>, <<>>, NoCommand, 0).nodes

\* C15: execute on an empty node list, and on the placeholder node list of
\* buildGraph, raises no error, spawns no subprocess, and resolves.
C15_ExecutingNothing ==
  /\ []((entry = "exec" /\ NothingToExecute) =>
          /\ err = "none" /\ exitCode # 1
          /\ pc \in {"exec", "loop", "resolved", "exited"}
          /\ DOMAIN processes = {} /\ tcompleted = {} /\ failedTasks = {}
          /\ running = {})
  /\ (entry = "exec" /\ pc = "exec" /\ NothingToExecute) ~>
        (pc = "resolved" /\ AllCompleted)

\* execute has resolved on the placeholder node
C15_Witness ==
  /\ entry = "exec" /\ pc = "resolved" /\ Len(nodes) = 1
  /\ nodes = buildGraph(<<>>, <<>>, NoCommand, 0).nodes
  /\ completed = {nodes[1].id} /\ DOMAIN processes = {}

\* how many times sig was sent to the subprocess of task nm
Sent(sigs, nm, sig) ==
  IF nm \in DOMAIN sigs THEN Len(SelectSeq(sigs[nm], LAMBDA x : x = sig)) ELSE 0

\* C16: the first termination request sets aborted, sends SIGTERM to the
\* subprocesses in the process table and schedules the grace timer; after
\* it aborted stays set, no further SIGTERM is sent and no further timer is
\* scheduled, so a later request changes nothing.
C16_ShutdownIdempotent ==
  [][/\ (~aborted /\ aborted') =>
          /\ timers = 0 /\ timers' = 1 /\ timer' = "armed"
          /\ processes' = processes
          /\ \A nm \in DOMAIN processes : signals'[nm] = <<"SIGTERM">>
     /\ aborted =>
          /\ aborted' /\ timers = 1 /\ timers' = 1
          /\ \A nm \in DOMAIN signals' :
                Sent(signals', nm, "SIGTERM") = Sent(signals, nm, "SIGTERM")
          /\ (signals' # signals \/ exitCode' # exitCode) =>
                (timer = "armed" /\ timer' = "fired")]_vars

\* a termination request has been handled while a subprocess was in the
\* process table, and a further request can arrive
C16_Witness ==
  /\ entry = "exec" /\ aborted /\ timer = "armed" /\ pc \in {"await", "resolved", "rejected"}
  /\ \E nm \in DOMAIN processes : nm \in DOMAIN signals /\ signals[nm] = <<"SIGTERM">>

\* C17: a subprocess receives SIGTERM before SIGKILL and each at most once;
\* the first termination request sends SIGTERM to every subprocess in the
\* process table; SIGKILL is sent only when the grace timer fires, then to
\* every subprocess still in the table; and process.exit(0) is called in
\* that callback, after the kills, never before.
C17_ShutdownOrdering ==
  [][/\ \A nm \in DOMAIN signals' :
          signals'[nm] \in {<<"SIGTERM">>, <<"SIGTERM", "SIGKILL">>}
     /\ (~aborted /\ aborted') =>
          /\ \A nm \in DOMAIN processes : Sent(signals', nm, "SIGTERM") = 1
          /\ exitCode' = exitCode /\ timer' = "armed"
     /\ (timer' # "fired") =>
          /\ \A nm \in DOMAIN signals' : Sent(signals', nm, "SIGKILL") = 0
          /\ exitCode' # 0
     /\ (timer = "armed" /\ timer' = "fired") =>
          /\ aborted
          /\ \A nm \in DOMAIN processes : signals'[nm] = <<"SIGTERM", "SIGKILL">>
          /\ \A nm \in DOMAIN signals' :
                Sent(signals', nm, "SIGKILL") = 1 => nm \in DOMAIN processes
          /\ exitCode' = 0 /\ pc' = "exited"]_vars

\* the grace timer has fired: of two subprocesses signalled by the request
\* one had left the process table and the other was killed
C17_Witness ==
  /\ entry = "exec" /\ timer = "fired" /\ exitCode = 0
  /\ \E nm \in DOMAIN signals : signals[nm] = <<"SIGTERM", "SIGKILL">>
  /\ \E nm \in DOMAIN signals : signals[nm] = <<"SIGTERM">>

\* C18: once aborted is set no subprocess is spawned and no node is
\* launched: the loop starts no further batch and a sequential node no
\* further step; the step that sets aborted leaves every node and every
\* task as it is, and afterwards a live subprocess changes only by exiting.
C18_NoSpawnAfterAbort ==
  [][(pc \in ExecPcs /\ pc' \in ExecPcs) =>
       /\ aborted =>
            \A i \in NodeIdx :
               /\ nstate[i] = "pending" => nstate'[i] = "pending"
               /\ \A j \in 1..Len(nodes[i].tasks) :
                     /\ tstate[i][j] = "idle" => tstate'[i][j] = "idle"
                     /\ tstate[i][j] = "live" => tstate'[i][j] \in {"live"} \cup Exited
       /\ (~aborted /\ aborted') => (tstate' = tstate /\ nstate' = nstate)]_vars

\* after a termination request a sequential node has ended with a step it
\* never started, and execute has resolved with a node never launched
C18_Witness ==
  /\ entry = "exec" /\ aborted /\ pc = "resolved"
  /\ \E i \in NodeIdx :
        /\ nodes[i].sequential /\ Len(nodes[i].tasks) >= 2
        /\ tstate[i][1] \in Exited /\ tstate[i][2] = "idle"
        /\ nstate[i] \in {"completed", "failed"}
  /\ \E k \in NodeIdx : nstate[k] = "pending"

\* the launch of a non-sequential node spawns all its tasks at once
ParallelLaunch(i) ==
  (nstate[i] = "pending" /\ nstate'[i] # "pending") =>
     \A j \in 1..Len(nodes[i].tasks) : tstate[i][j] = "idle" /\ tstate'[i][j] = "live"

\* C19 as stated: a non-sequential node spawns all its tasks at once and is
\* classified completed or failed, and leaves running, only after every
\* one of its tasks has exited.
C19_AwaitsAllTasks ==
  [][(pc \in ExecPcs /\ pc' \in ExecPcs) =>
       \A i \in NodeIdx : ~nodes[i].sequential =>
          /\ ParallelLaunch(i)
          /\ (nstate'[i] \in {"completed", "failed"} \/ nodes[i].id \notin running') =>
                (nstate'[i] = "pending" \/ \A j \in 1..Len(nodes[i].tasks) :
                                              tstate'[i][j] \in Exited)]_vars

\* What Promise.all gives instead: a non-sequential node spawns all its
\* tasks at once; it is classified completed only after every task has
\* exited; it is classified failed only without continueOnError, in the
\* step in which the failure of one of its tasks is recorded, whether or
\* not the other tasks have exited; with continueOnError it leaves running
\* only after every task has exited.
ParallelNodeFailsFast ==
  [][(pc \in ExecPcs /\ pc' \in ExecPcs) =>
       \A i \in NodeIdx : ~nodes[i].sequential =>
          /\ ParallelLaunch(i)
          /\ nstate'[i] = "completed" =>
                \A j \in 1..Len(nodes[i].tasks) : tstate'[i][j] \in Exited
          /\ (nstate[i] # "failed" /\ nstate'[i] = "failed") =>
                /\ ~cont
                /\ \E j \in 1..Len(nodes[i].tasks) :
                      tstate[i][j] = "live" /\ tstate'[i][j] = "failed"
          /\ (cont /\ nstate'[i] # "pending" /\ nodes[i].id \notin running') =>
                \A j \in 1..Len(nodes[i].tasks) : tstate'[i][j] \in Exited]_vars

\* a non-sequential node is failed and has left running while one of its
\* tasks is still live
ParallelNodeFailedEarly ==
  /\ entry = "exec" /\ ~cont /\ pc \in ExecPcs
  /\ \E i \in NodeIdx :
        /\ ~nodes[i].sequential /\ nstate[i] = "failed" /\ nodes[i].id \notin running
        /\ \E j \in 1..Len(nodes[i].tasks) : tstate[i][j] = "live"

\* C20: in a sequential node a task is spawned only when every earlier task
\* of the node has exited and no other task of the node is live; without
\* continueOnError no task after a failed one is ever spawned; with
\* continueOnError (and no shutdown) the exit of a task, failed or not,
\* spawns the next task of the list in the same step.
C20_SequentialOrder ==
  [][(pc \in ExecPcs /\ pc' \in ExecPcs) =>
       \A i \in NodeIdx : nodes[i].sequential =>
         \A j \in 1..Len(nodes[i].tasks) :
           /\ (tstate[i][j] # "live" /\ tstate'[i][j] = "live") =>
                 /\ tstate[i][j] = "idle"
                 /\ \A k \in 1..Len(nodes[i].tasks) :
                       /\ k < j => tstate'[i][k] \in Exited
                       /\ k > j => tstate'[i][k] = "idle"
           /\ (~cont /\ tstate'[i][j] = "failed") =>
                 \A k \in 1..Len(nodes[i].tasks) : k > j => tstate'[i][k] = "idle"
           /\ (cont /\ ~aborted /\ j < Len(nodes[i].tasks)
                  /\ tstate[i][j] = "live" /\ tstate'[i][j] \in Exited) =>
                 tstate'[i][j + 1] = "live"]_vars

\* with continueOnError the first task of a sequential node failed and the
\* second one was run after it
C20_Witness ==
  /\ entry = "exec" /\ cont /\ pc \in ExecPcs
  /\ \E i \in NodeIdx :
        /\ nodes[i].sequential /\ Len(nodes[i].tasks) >= 2
        /\ tstate[i][1] = "failed" /\ tstate[i][2] \in Exited

\* the names of the tasks whose subprocess was spawned and has not exited
LiveTaskNames ==
  UNION {{nodes[i].tasks[j].name : j \in {k \in 1..Len(nodes[i].tasks) : tstate[i][k] = "live"}} :
           i \in NodeIdx}

\* C21: during execute the process table holds exactly the subprocesses
\* that were spawned and have not exited; the exit of a subprocess removes
\* its entry, whether it exited with success or with failure.
C21_ProcessTable ==
  pc \in ExecPcs => DOMAIN processes = LiveTaskNames

\* the words of the command line after its first "--"
TrailingWords ==
  LET seps == {i \in 1..Len(args) : args[i].w = "--"}
  IN IF seps = {} THEN <<>>
     ELSE LET first == CHOOSE i \in seps : \A j \in seps : i <= j
          IN [k \in 1..(Len(args) - first) |-> args[first + k].w]

\* the trailing command starts with "f " or "frunk "
NestedTrailing == Len(TrailingWords) >= 2 /\ TrailingWords[1] \in {"f", "frunk"}

\* the targets for which resolution looks the name up with findMatches:
\* those of a bracket argument without arrow, and those of a chain part
\* with several names (a chain part of one name goes through micromatch)
LookedUpTargets ==
  UNION {UNION {{args[k].chain[g][i].n : i \in 1..Len(args[k].chain[g])} :
                  g \in {h \in 1..Len(args[k].chain) :
                           Len(args[k].chain) = 1 \/ Len(args[k].chain[h]) >= 2}} :
           k \in 1..Len(args)}

\* the fatal errors of a run that are decided by its input
UnresolvedTarget == LookedUpTargets \ ManifestNames # {}
CycleReachable == \E n \in Closure(ArgTargets \cap ManifestNames) : OnCycle(n)

\* the failure of some task was recorded
SomeTaskFailed ==
  \E i \in DOMAIN tstate : \E j \in DOMAIN tstate[i] : tstate[i][j] = "failed"

C23_MissingTargetIsFatal ==
  (entry = "run" /\ pc # "run" /\ ~NestedTrailing /\ ArgTargets \ ManifestNames # {})
  => /\ err = "notfound" /\ pc = "exited" /\ exitCode = 1
     /\ nodes = <<>> /\ nstate = <<>> /\ tstate = <<>> /\ DOMAIN processes = {}

\* the names a manifest entry lists in the bracket group of its command,
\* and those of them that the manifest lacks
Listed(n) ==
  IF n \in ManifestNames
  THEN LET c == getScript(scripts, n).command
       IN IF Len(c) >= 2 /\ c[1].w = "f" /\ c[2].w = "["
          THEN {c[2].g[i].n : i \in 1..Len(c[2].g)}
          ELSE {}
  ELSE {}
MissingListed(n) == Listed(n) \ ManifestNames

\* C24: buildGraph throws only for a cycle among the declarations reachable
\* from its targets, never for a dependency name that the manifest lacks;
\* when it returns, a reachable script that lists a missing name has its
\* one node, the missing name has no node, and the dependencies of the
\* script's node are exactly the nodes of the listed names that exist.
C24_MissingDependencyTolerated ==
  (entry = "build" /\ pc \in {"built", "validated", "threw"}) =>
     /\ pc = "threw" => \E n \in Closure(TargetNames) : OnCycle(n)
     /\ pc # "threw" =>
           \A n \in Closure(TargetNames) : MissingListed(n) # {} =>
              /\ Cardinality(NodesNamed(n)) = 1
              /\ \A m \in MissingListed(n) : NodesNamed(m) = {}
              /\ \A m \in Declared(n) : NodesNamed(m) # {}
              /\ \A i \in NodesNamed(n) :
                    /\ DepIds(i) = {IdOf(m) : m \in Declared(n)}
                    /\ Len(nodes[i].dependencies) = Cardinality(Declared(n))

\* buildGraph returned for a target that lists a missing name next to an
\* existing script
C24_Witness ==
  /\ entry = "build" /\ pc = "built"
  /\ \E n \in TargetNames : MissingListed(n) # {} /\ Declared(n) # {}

\* task j of node i is the task whose failure is recorded in this step
FailsNow(i, j) == tstate[i][j] = "live" /\ tstate'[i][j] = "failed"

\* C25: without continueOnError, the step that records the failure of a
\* task during the await of a batch rejects execute with the task error
\* and leaves every other live subprocess alone: it stays live and in the
\* process table, no signal is sent and the executor is not aborted; after
\* the rejection the error stays, a subprocess that then exits with status
\* zero still has its task and (as the last task of its node) its node
\* recorded as completed, and every live subprocess does exit unless a
\* termination request arrives.
C25_FailureDoesNotCancel ==
  /\ [][(entry = "exec" /\ ~cont /\ pc \in ExecPcs) =>
         /\ (pc = "await" /\ \E i \in NodeIdx : \E j \in 1..Len(nodes[i].tasks) : FailsNow(i, j)) =>
               /\ pc' = "rejected" /\ err' = "task"
               /\ signals' = signals /\ aborted' = aborted
               /\ \A k \in NodeIdx : \A l \in 1..Len(nodes[k].tasks) :
                     (tstate[k][l] = "live" /\ ~FailsNow(k, l)) =>
                        /\ tstate'[k][l] = "live"
                        /\ nodes[k].tasks[l].name \in DOMAIN processes'
               /\ \A k \in NodeIdx : (nstate[k] = "running" /\ nstate'[k] # "running") =>
                     \E j \in 1..Len(nodes[k].tasks) : FailsNow(k, j)
         /\ pc = "rejected" =>
               /\ pc' \in {"rejected", "exited"} /\ err' = err
               /\ \A k \in NodeIdx : \A l \in 1..Len(nodes[k].tasks) :
                     (tstate[k][l] = "live" /\ tstate'[k][l] = "ok") =>
                        /\ nodes[k].tasks[l].name \in tcompleted'
                        /\ (nstate[k] = "running" /\ l = Len(nodes[k].tasks)
                              /\ (\A m \in 1..Len(nodes[k].tasks) : m # l => tstate[k][m] # "live"))
                             => nstate'[k] = "completed" /\ nodes[k].id \in completed']_vars
  /\ \A k \in 1..MaxNodes : \A l \in 1..MaxTasks :
        (entry = "exec" /\ ~cont /\ pc = "rejected" /\ k \in NodeIdx
           /\ l \in 1..Len(nodes[k].tasks) /\ tstate[k][l] = "live")
        ~> (aborted \/ (k \in DOMAIN tstate /\ l \in DOMAIN tstate[k]
                          /\ tstate[k][l] \in Exited))

\* execute has rejected on the failure of one node while the subprocess of
\* a node unrelated to it is still live
C25_Witness ==
  /\ entry = "exec" /\ ~cont /\ pc = "rejected" /\ err = "task" /\ ~aborted
  /\ \E i, k \in NodeIdx :
        /\ i # k /\ Independent(i, k)
        /\ nstate[i] = "failed" /\ nstate[k] = "running"
        /\ \E l \in 1..Len(nodes[k].tasks) : tstate[k][l] = "live"

\* the lines of a message that are not blank, in order
NonBlank(message) == SelectSeq(message, LAMBDA line : line \notin {"", " "})

\* C26: a call of log, info or success on a quiet logger writes nothing;
\* a call of error writes, quiet or not, exactly one entry on the error
\* stream for every non-blank line of its message, in order; both hold
\* for the calls made through a TaskLogger.
C26_QuietMode ==
  [][(entry = "log" /\ logCall' # logCall) =>
       /\ (logger.config.quiet /\ logCall'.op \in {"log", "info", "success"}) =>
             console' = console
       /\ logCall'.op = "error" =>
             /\ Len(console') = Len(console) + Len(NonBlank(logCall'.message))
             /\ SubSeq(console', 1, Len(console)) = console
             /\ \A k \in 1..Len(NonBlank(logCall'.message)) :
                   /\ console'[Len(console) + k].stream = "error"
                   /\ console'[Len(console) + k].text.line = NonBlank(logCall'.message)[k]]_vars

\* a quiet logger whose TaskLogger was asked to log and to report an error
\* has written the error only
C26_Witness ==
  /\ entry = "log" /\ logger.config.quiet
  /\ logCall.via = "task" /\ logCall.op = "log" /\ NonBlank(logCall.message) # <<>>
  /\ Len(console) = 1 /\ console[1].stream = "error"

\* C27: Runner.run ends with the nested-command error exactly when the
\* words after the first "--" start with f or frunk followed by a further
\* word; it then exits with code 1 whatever the targets are, with no
\* pattern resolved, no command taken over, no node built and nothing
\* spawned.
C27_NestedCommandRejected ==
  (entry = "run" /\ pc # "run") =>
     /\ err = "parse" <=> NestedTrailing
     /\ NestedTrailing =>
           /\ pc = "exited" /\ exitCode = 1
           /\ patterns = <<>> /\ command = NoCommand /\ nodes = <<>> /\ nodeCounter = 0
           /\ nstate = <<>> /\ tstate = <<>> /\ DOMAIN processes = {}

\* a run rejected for its nested trailing command although one of its
\* targets names no manifest entry
C27_Witness ==
  /\ entry = "run" /\ pc = "exited" /\ err = "parse" /\ exitCode = 1
  /\ TrailingWords[1] = "frunk" /\ UnresolvedTarget

\* the patterns given to resolvePatterns, read off the bracket argument
GivenPatterns == args[1].chain[1]

\* pattern i adds the entry e / removes the entry e
Adds(i, e) ==
  /\ e.name \in ManifestNames /\ e.idx = -1
  /\ GivenPatterns[i].n \in {e.name, "*"}
  /\ GivenPatterns[i].kind = (IF e.seq THEN "seq" ELSE "lit")
Removes(i, e) ==
  /\ GivenPatterns[i].kind = "excl"
  /\ GivenPatterns[i].n = "*" \/ (~e.seq /\ GivenPatterns[i].n = e.name)

\* the patterns that add e and have no pattern to their right removing it
Surviving(e) ==
  {i \in 1..Len(GivenPatterns) :
     Adds(i, e) /\ \A j \in (i + 1)..Len(GivenPatterns) : ~Removes(j, e)}

FirstSurviving(e) == CHOOSE i \in Surviving(e) : \A j \in Surviving(e) : i <= j

ResolvedEntries == {Plain(n) : n \in ManifestNames} \cup {SeqTag(n) : n \in ManifestNames}

\* C28: resolvePatterns throws only for a literal name that is no manifest
\* entry; the list it returns holds exactly the entries added by a pattern
\* that has no pattern to its right removing them (so an exclusion acts
\* on what stands to its left only, and a later inclusion adds a name
\* again), each once, ordered by the first such pattern and, within one
\* pattern, by manifest order.
C28_LeftToRight ==
  (entry = "resolve" /\ pc # "resolve") =>
     /\ pc = "threw" <=>
           \E i \in 1..Len(GivenPatterns) :
              /\ GivenPatterns[i].kind = "lit"
              /\ GivenPatterns[i].n \notin ManifestNames \cup {"*"}
     /\ pc # "threw" =>
           /\ Range(patterns) = {e \in ResolvedEntries : Surviving(e) # {}}
           /\ \A x, y \in 1..Len(patterns) : x < y =>
                 /\ patterns[x] # patterns[y]
                 /\ \/ FirstSurviving(patterns[x]) < FirstSurviving(patterns[y])
                    \/ /\ FirstSurviving(patterns[x]) = FirstSurviving(patterns[y])
                       /\ Pos(patterns[x].name) < Pos(patterns[y].name)

\* a name that was included, excluded and included again is in the result,
\* behind the names that were included with it the first time
C28_Witness ==
  /\ entry = "resolve" /\ pc = "resolved"
  /\ GivenPatterns = <<Lit("*"), Excl("a"), Lit("a")>>
  /\ patterns = <<Plain("b"), Plain("c"), Plain("a")>>

NodeIds == {nodes[i].id : i \in 1..Len(nodes)}

\* C29: the nodes of a list returned by buildGraph have pairwise different
\* ids, and none of these ids is the id of a node that an earlier
\* buildGraph call of the same builder returned.
C29_UniqueNodeIds ==
  entry = "build" =>
     /\ \A i, j \in 1..Len(nodes) : i # j => nodes[i].id # nodes[j].id
     /\ \A k \in 1..Len(earlier) : NodeIds \cap earlier[k] = {}
     /\ \A k, l \in 1..Len(earlier) : k # l => earlier[k] \cap earlier[l] = {}

\* the second call of a builder returned several nodes after its first
\* call had returned several
C29_Witness ==
  /\ entry = "build" /\ pc = "built"
  /\ Len(earlier) = 1 /\ Cardinality(earlier[1]) >= 2 /\ Len(nodes) >= 2

\* the ids reachable from the ids S along the dependencies of the nodes
RECURSIVE ReachableIds(_)
ReachableIds(S) ==
  LET S2 == S \cup UNION {DepIds(i) : i \in {k \in 1..Len(nodes) : nodes[k].id \in S}}
  IN IF S2 = S THEN S ELSE ReachableIds(S2)

\* some node reaches itself along one or more dependencies
HasCycle == \E i \in 1..Len(nodes) : nodes[i].id \in ReachableIds(DepIds(i))

\* C30: validateGraph throws the circular-dependency error exactly when
\* some node of the list reaches itself along dependencies (a node that
\* depends on itself included), and it accepts every list that buildGraph
\* returned.
C30_ValidateGraph ==
  pc = "validated" =>
     /\ entry = "validate" => (err = "cycle" <=> HasCycle)
     /\ entry = "build" => err = "none" /\ ~HasCycle

\* validateGraph accepted a diamond: a node with two dependencies that
\* share a dependency
C30_Witness ==
  /\ entry = "validate" /\ pc = "validated" /\ err = "none"
  /\ \E i, j, k, l \in 1..Len(nodes) :
        /\ j # k
        /\ {nodes[j].id, nodes[k].id} \subseteq DepIds(i)
        /\ nodes[l].id \in DepIds(j) \cap DepIds(k)

\* node i leaves pending in this step
Launched(i) == nstate[i] = "pending" /\ nstate'[i] # "pending"

\* every dependency of node i is in completed and node i is not
Ready(i) == nodes[i].id \notin completed /\ DepIds(i) \subseteq completed

\* C31: the runnable nodes are computed only while no node is running and
\* no subprocess is live; the step that computes them launches every node
\* that is pending with all its dependencies completed, and no node is
\* launched in any other step, so none is launched while a node of the
\* batch is still running.
C31_BatchedScheduling ==
  [][(entry = "exec" /\ pc \in ExecPcs) =>
       /\ pc = "loop" => running = {} /\ LiveTaskNames = {}
       /\ \A i \in NodeIdx : Launched(i) =>
             /\ pc = "loop" /\ running = {} /\ ~aborted /\ Ready(i)
             /\ \A k \in NodeIdx : (nstate[k] = "pending" /\ Ready(k)) => Launched(k)
       /\ (pc = "await" /\ pc' = "loop") => running' = {}]_vars

\* a pending node whose dependencies are all completed waits while an
\* unrelated node of the current batch is still running
C31_Witness ==
  /\ entry = "exec" /\ pc = "await"
  /\ \E i, k \in NodeIdx :
        /\ nstate[i] = "pending" /\ Ready(i) /\ DepIds(i) # {}
        /\ nstate[k] = "running" /\ Independent(i, k)

\* a subprocess is spawned for task j of node i in this step
Spawned(i, j) ==
  /\ i \in DOMAIN tstate /\ j \in DOMAIN tstate[i]
  /\ i \in DOMAIN tstate' /\ j \in DOMAIN tstate'[i]
  /\ tstate[i][j] # "live" /\ tstate'[i][j] = "live"

\* C32 as stated: without continueOnError, once a task failure is recorded
\* no further subprocess is spawned: not for a dependent, not for a node
\* that has not started, not for the next step of a sequential node that
\* was running when the failure happened.
C32_NoSpawnAfterFailure ==
  [][(entry = "exec" /\ pc \in ExecPcs /\ ~cont /\ failedTasks # {}) =>
       \A i \in NodeIdx : \A j \in 1..Len(nodes[i].tasks) : ~Spawned(i, j)]_vars

\* the group before the one target p belongs to: for an indexed target the
\* group of the next lower index, for a target without index the group of
\* the highest index (none when no target carries an index)
GroupBefore(p) ==
  IF patterns[p].idx >= 0 THEN PrevGroup(patterns[p].idx)
  ELSE IF SeqIndices = {} THEN {}
  ELSE SeqGroup(CHOOSE m \in SeqIndices : \A x \in SeqIndices : x <= m)

\* what grouping adds to the dependencies of the manifest entry n
Grouped(n) ==
  IF n \in ManifestNames
  THEN UNION {GroupBefore(p) : p \in {x \in 1..Len(patterns) : patterns[x].name = n}}
  ELSE {}

\* discovery edges and grouping edges together
Joined(n) == Declared(n) \cup Grouped(n)

RECURSIVE JoinedClosure(_)
JoinedClosure(S) ==
  LET S2 == S \cup UNION {Joined(n) : n \in S}
  IN IF S2 = S THEN S ELSE JoinedClosure(S2)

JoinedCycle == \E n \in Closure(TargetNames) : n \in JoinedClosure(Joined(n))
DeclaredCycle == \E n \in Closure(TargetNames) : OnCycle(n)

C40_UntaggedTargetsLast ==
  (entry = "build" /\ pc = "built" /\ command = NoCommand) =>
    /\ \A p \in 1..Len(patterns) :
          (patterns[p].idx < 0 /\ patterns[p].name \in ManifestNames) =>
             \A i \in NodesNamed(patterns[p].name) :
                DepIds(i) = {IdOf(x) : x \in Declared(patterns[p].name) \cup GroupBefore(p)}
    /\ SeqIndices = {} =>
          \A n \in Closure(TargetNames) : \A i \in NodesNamed(n) :
             DepIds(i) = {IdOf(x) : x \in Declared(n)}

\* SEQ0:a, SEQ1:b, c, d over plain scripts: c and d each depend on b only
C40_Witness ==
  /\ entry = "build" /\ pc = "built"
  /\ \A i \in 1..Len(scripts) : ~IsFrunkScript(scripts[i])
  /\ patterns = <<SeqIdx(0, "a"), SeqIdx(1, "b"), Plain("c"), Plain("d")>>
  /\ Len(nodes) = 4
  /\ \A n \in {"c", "d"} : \A i \in NodesNamed(n) : DepIds(i) = {IdOf("b")}

\* no target carries an index: grouping adds nothing
C40_WitnessNoIndex ==
  /\ entry = "build" /\ pc = "built"
  /\ patterns = <<Plain("a"), Plain("b")>>
  /\ \A i \in 1..Len(nodes) : DepIds(i) = {}

\* C34: for every manifest, those with declaration cycles included, the
\* buildGraph call has an outcome, a node list or a throw (the traversal
\* ends); when a cycle of
\* declarations is reachable from the targets the edge that closes it is in
\* the graph, so the call ends with the circular-dependency error, and it
\* ends with that error in no other case.
C34_DiscoveryTerminates ==
  /\ (entry = "build" /\ pc = "build" /\ SeqIndices = {}) =>
        \E r \in {buildGraph(patterns, scripts, command, nodeCounter)} :
           /\ r.ok \in BOOLEAN
           /\ r.ok <=> ~DeclaredCycle
  /\ (entry = "build" /\ pc \in {"built", "threw"} /\ SeqIndices = {}) =>
        ((pc = "threw" /\ err = "cycle") <=> DeclaredCycle)

\* a: f [b], b: f [a], target a: the traversal of a reaches b, then a again
C34_Witness ==
  /\ entry = "build" /\ pc = "threw" /\ err = "cycle"
  /\ patterns = <<Plain("a")>>
  /\ Declared("a") = {"b"} /\ Declared("b") = {"a"}

\* the ids of the nodes of the scripts in S
IdsOf(S) == {nodes[k].id : k \in UNION {NodesNamed(x) : x \in S}}

\* the manifest command of n, and how it reads as an orchestration
\* invocation: the bare form, or a head followed by a bracket group
CommandOf(n) == getScript(scripts, n).command
IsBare(c) == Len(c) >= 3 /\ c[1].w \in {"f", "frunk"} /\ c[2].w = "--"
GroupAt(c) ==
  IF Len(c) >= 2 /\ c[1].w \in {"f", "frunk"} /\ IsGroup(c[2]) THEN 2
  ELSE IF Len(c) >= 3 /\ c[1].w = "node" /\ IsGroup(c[3]) THEN 3
  ELSE 0
IsInvocation(c) == ~IsBare(c) /\ GroupAt(c) > 0
BracketedPatterns(c) == IF IsInvocation(c) THEN c[GroupAt(c)].g ELSE <<>>
TrailingCommand(c) ==
  LET seps == {i \in 1..(Len(c) - 1) : c[i].w = "--"}
  IN IF seps = {} THEN <<>>
     ELSE SubSeq(c, (CHOOSE i \in seps : \A j \in seps : i <= j) + 1, Len(c))

\* C35: in the list buildGraph returns, the task of a manifest entry has:
\* for the bare form the trailing command and no dependencies; for an
\* invocation with a bracket group the trailing command, or the placeholder
\* when there is none, and the dependencies its bracketed patterns resolve
\* to; for any other command the command as it stands and no dependencies.
C35_CommandUnwrapping ==
  (entry = "build" /\ pc = "built") =>
    \A i \in 1..Len(nodes) : \A n \in ManifestNames :
       (Len(nodes[i].tasks) = 1 /\ nodes[i].tasks[1].name = n) =>
          LET c == CommandOf(n) IN
          /\ nodes[i].tasks[1].command =
                IF IsBare(c) \/ IsInvocation(c)
                THEN (IF TrailingCommand(c) = <<>> THEN <<Word("echo"), Word("No command")>>
                      ELSE TrailingCommand(c))
                ELSE c
          /\ DepIds(i) = IdsOf(Range(resolvedDepsOf(BracketedPatterns(c), scripts)))
          /\ \A x \in Range(resolvedDepsOf(BracketedPatterns(c), scripts)) :
                NodesNamed(x) # {}

\* the bare form next to an invocation without trailing command
C35_Witness ==
  /\ entry = "build" /\ pc = "built"
  /\ CommandOf("a") = <<Word("f"), Group(<<Lit("b"), Lit("c")>>)>>
  /\ \E i \in NodesNamed("a") :
        /\ nodes[i].tasks[1].command = <<Word("echo"), Word("No command")>>
        /\ DepIds(i) = {IdOf("b"), IdOf("c")}

C35_WitnessBare ==
  /\ entry = "build" /\ pc = "built"
  /\ CommandOf("a") = <<Word("f"), Word("--"), Word("echo"), Word("a")>>
  /\ \E i \in NodesNamed("a") :
        nodes[i].tasks[1].command = Echo("a") /\ DepIds(i) = {}

\* the nested resolution of n raises: a literal of its group that is not a
\* glob names no manifest entry
ResolutionRaises(n) ==
  \E k \in 1..Len(BracketedPatterns(CommandOf(n))) :
     LET q == BracketedPatterns(CommandOf(n))[k]
     IN q.kind = "lit" /\ q.n # "*" /\ q.n \notin ManifestNames

LiteralNames(n) ==
  {BracketedPatterns(CommandOf(n))[k].n : k \in
     {x \in 1..Len(BracketedPatterns(CommandOf(n))) :
        BracketedPatterns(CommandOf(n))[x].kind = "lit"}} \cap ManifestNames

\* C39: when the nested resolution of a manifest entry raises, its node in
\* the list buildGraph returns depends on exactly the nodes of the group's
\* patterns that are names of manifest entries: a glob of the group adds
\* nothing and an exclusion of the group removes nothing.
C39_LiteralFallback ==
  (entry = "build" /\ pc = "built") =>
    \A n \in ManifestNames : \A i \in NodesNamed(n) :
       ResolutionRaises(n) =>
          /\ DepIds(i) = IdsOf(LiteralNames(n))
          /\ \A x \in LiteralNames(n) : NodesNamed(x) # {}

\* a: f [*, c, !c, d] with d missing: the node of a depends on c alone
C39_Witness ==
  /\ entry = "build" /\ pc = "built"
  /\ "d" \notin ManifestNames
  /\ BracketedPatterns(CommandOf("a")) = <<Lit("*"), Lit("c"), Excl("c"), Lit("d")>>
  /\ \E i \in NodesNamed("a") : DepIds(i) = {IdOf("c")}

\* the subprocess of task j of node i exits in this step
Exits(i, j) == tstate[i][j] = "live" /\ tstate'[i][j] # "live"

\* C36: in every step taken while aborted is set: no task and no node is
\* added to the failed sets, no error is raised and execute does not
\* reject, exit code 1 is not requested; a subprocess that exits leaves its
\* task without failure, and when it was the last live one of a running
\* node the node is added to completed, steps of a sequential node that
\* were never started notwithstanding; the next loop test resolves execute.
C36_AbortAbsorbs ==
  [][aborted =>
       /\ failedTasks' = failedTasks /\ failedNodes' = failedNodes
       /\ err' = err
       /\ pc' = "rejected" => pc = "rejected"
       /\ exitCode' = 1 => exitCode = 1
       /\ pc = "loop" => pc' = "resolved"
       /\ \A i \in NodeIdx : \A j \in 1..Len(nodes[i].tasks) :
             (i \in DOMAIN tstate /\ Exits(i, j)) =>
                /\ tstate'[i][j] \in {"ok", "absorbed"}
                /\ (nstate[i] = "running"
                     /\ \A k \in 1..Len(nodes[i].tasks) : k # j => tstate[i][k] # "live")
                    => (nodes[i].id \in completed' /\ nstate'[i] = "completed")]_vars

\* execute has resolved after a termination request: the first step of a
\* sequential node exited non-zero, its second step was never started, the
\* node is in completed and nothing is recorded as failed
C36_Witness ==
  /\ entry = "exec" /\ aborted /\ pc = "resolved" /\ err = "none"
  /\ failedTasks = {} /\ failedNodes = {}
  /\ \E i \in NodeIdx :
        /\ nodes[i].sequential /\ Len(nodes[i].tasks) = 2
        /\ tstate[i] = <<"absorbed", "idle">>
        /\ nodes[i].id \in completed

\* the same through Runner.run: a killed task, no exit code 1
C36_WitnessRun ==
  /\ entry = "run" /\ aborted /\ pc = "resolved" /\ exitCode # 1
  /\ \E i \in NodeIdx : tstate[i] = <<"absorbed">> /\ nodes[i].id \in completed

\* C37: with continueOnError, for node lists without cycles whose
\* dependency ids all exist, whatever subprocesses exit non-zero: execute
\* never rejects, neither with a task error nor with the stuck-run error,
\* and Runner.run requests exit code 1 for no error of execute (only for
\* an error raised before execute is called: parsing, resolution, build).
C37_ContinueNeverRejects ==
  (cont /\ pc \in ExecPcs) =>
     /\ err \notin {"task", "stuck"}
     /\ pc # "rejected"
     /\ exitCode = 1 => (err # "none" /\ nstate = <<>> /\ tstate = <<>>)

\* execute has resolved although every task of the list failed
C37_Witness ==
  /\ entry = "exec" /\ cont /\ pc = "resolved" /\ ~aborted
  /\ Len(nodes) = MaxNodes
  /\ \A i \in NodeIdx : DepIds(i) # {} \/ i = 1
  /\ \A i \in NodeIdx : \A j \in 1..Len(nodes[i].tasks) : tstate[i][j] = "failed"

\* the same through Runner.run with -c: no exit code is requested
C37_WitnessRun ==
  /\ entry = "run" /\ cont /\ pc = "resolved" /\ ~aborted /\ exitCode = -1
  /\ Len(nodes) >= 2
  /\ \A i \in NodeIdx : tstate[i] = <<"failed">>

\* C38: on any node list, when every continuation of execute runs and
\* every spawned subprocess exits, a call of execute ends: it resolves or
\* rejects (or the process exits after a termination request); the loop is
\* never evaluated while a node is running, so it never polls, and without
\* a termination request it resolves only with the id of every node in
\* completed: a list that cannot go on ends in a rejection.
C38_ExecuteEnds ==
  /\ (entry = "exec" /\ pc = "exec") ~> (pc \in {"resolved", "rejected", "exited"})
  /\ [](pc = "loop" => running = {})
  /\ []((pc = "resolved" /\ ~aborted) => \A i \in NodeIdx : nodes[i].id \in completed)

\* two nodes that depend on each other: the stuck-run error
C38_Witness ==
  /\ entry = "exec" /\ pc = "rejected" /\ err = "stuck"
  /\ Len(nodes) = 2 /\ nodes[1].id = 0 /\ nodes[2].id = 1
  /\ nodes[1].dependencies = <<1>> /\ nodes[2].dependencies = <<0>>
  /\ errNodes = {0, 1}

\* two nodes with one id, the second waiting for an id no node has: the
\* first completes, the second never runs, execute resolves
C38_WitnessDuplicate ==
  /\ entry = "exec" /\ pc = "resolved" /\ ~aborted
  /\ Len(nodes) = 2 /\ nodes[1].id = 0 /\ nodes[2].id = 0
  /\ nodes[2].dependencies = <<2>>
  /\ nstate = <<"completed", "pending">>

====
